---- MODULE Spec2Model ----
(***************************************************************************)
(* Model of the n8n schema generator and validation API.                   *)
(*                                                                         *)
(* JSON values are tagged records, so that values of different JavaScript  *)
(* types can live in one set:                                              *)
(*   null       [t |-> "null"]                                             *)
(*   undefined  [t |-> "undefined"]   (an absent key, never a JSON value)  *)
(*   number     [t |-> "num",  n |-> 3]                                    *)
(*   string     [t |-> "str",  s |-> "a"]                                  *)
(*   boolean    [t |-> "bool", b |-> TRUE]                                 *)
(*   array      [t |-> "arr",  a |-> << v1, v2 >>]                         *)
(*   object     [t |-> "obj",  o |-> << [k |-> key, v |-> value], .. >>]   *)
(* An object keeps its keys in insertion order, as Object.keys sees them.  *)
(* Version numbers are scaled by ten (3.2 is 32) to stay integers.         *)
(***************************************************************************)
EXTENDS Integers, Sequences, FiniteSets, TLC

VARIABLES
    reqKind,    \* the call at hand: "none", "node", "workflow", "structure", ...
    reqBody,    \* the parsed JSON document of the call at hand
    native,     \* what the n8n-workflow helpers answer for the call at hand
    outcome,    \* what the validation function did with it
    status,     \* the HTTP status of the response, 0 before there is one
    pc,         \* "idle", "received" or "responded"
    cacheSets,  \* the writes made to the schema cache since loadSchemas returned
    held,       \* a document an in-process caller keeps and validates again
    first,      \* the result of the first validation of the held document
    again,      \* the result of its latest validation
    files,      \* the output directory of the extractor: path and content
    stats       \* the ChangeStats of the extractor process

vars == << reqKind, reqBody, native, outcome, status, pc, cacheSets, held, first, again,
          files, stats >>

-----------------------------------------------------------------------------
(* JavaScript values and the built-ins the validators use                   *)

JNull == [t |-> "null"]
Undefined == [t |-> "undefined"]
JNum(n) == [t |-> "num", n |-> n]
JStr(s) == [t |-> "str", s |-> s]
JBool(b) == [t |-> "bool", b |-> b]
JArr(a) == [t |-> "arr", a |-> a]
JObj(o) == [t |-> "obj", o |-> o]
KV(key, value) == [k |-> key, v |-> value]

\* x.key for a value that is neither null nor undefined (those throw, and the
\* callers below test for them first). Primitives and arrays have none of the
\* keys the validators read.
Get(x, key) ==
    IF x.t = "obj" /\ \E i \in DOMAIN x.o : x.o[i].k = key
    THEN x.o[CHOOSE i \in DOMAIN x.o : x.o[i].k = key].v
    ELSE Undefined

\* Reading a property of null or undefined is a TypeError.
Nullish(x) == x.t \in {"null", "undefined"}

\* ToBoolean
Truthy(x) ==
    CASE x.t \in {"null", "undefined"} -> FALSE
      [] x.t = "num" -> x.n # 0
      [] x.t = "str" -> x.s # ""
      [] x.t = "bool" -> x.b
      [] OTHER -> TRUE

\* typeof x === 'object'
TypeofObject(x) == x.t \in {"null", "arr", "obj"}

IsArray(x) == x.t = "arr"

IsPrimitive(x) == x.t \in {"null", "undefined", "num", "str", "bool"}

\* a === b for two values held in different places: primitives compare by
\* value, objects and arrays by reference, so two parsed ones never agree.
StrictEq(a, b) == IsPrimitive(a) /\ a = b

\* Array.prototype.includes / Set.prototype.has
Includes(seq, x) == \E i \in DOMAIN seq : StrictEq(seq[i], x)

RECURSIVE JoinStrings(_, _)
JoinStrings(seq, sep) ==
    IF seq = << >> THEN ""
    ELSE IF Len(seq) = 1 THEN seq[1]
    ELSE seq[1] \o sep \o JoinStrings(Tail(seq), sep)

\* String(x), as a template literal or Array.join converts a value
RECURSIVE Stringify(_)
Stringify(x) ==
    CASE x.t = "null" -> "null"
      [] x.t = "undefined" -> "undefined"
      [] x.t = "num" -> ToString(x.n)
      [] x.t = "str" -> x.s
      [] x.t = "bool" -> IF x.b THEN "true" ELSE "false"
      [] x.t = "arr" ->
            JoinStrings([i \in DOMAIN x.a |->
                IF Nullish(x.a[i]) THEN "" ELSE Stringify(x.a[i])], ",")
      [] OTHER -> "[object Object]"

\* Array.prototype.join: null and undefined elements become the empty string
Join(seq, sep) ==
    JoinStrings([i \in DOMAIN seq |->
        IF Nullish(seq[i]) THEN "" ELSE Stringify(seq[i])], sep)

\* Object.entries(x) for x neither null nor undefined: the own keys of an
\* object, the indices of an array, nothing for a number or a boolean (and
\* for the empty string, the only string the requests below hold here).
ObjectEntries(x) ==
    CASE x.t = "obj" -> x.o
      [] x.t = "arr" -> [i \in DOMAIN x.a |-> KV(ToString(i - 1), x.a[i])]
      [] OTHER -> << >>

ObjectKeys(x) == [i \in DOMAIN ObjectEntries(x) |-> ObjectEntries(x)[i].k]

\* Array.prototype.filter
RECURSIVE SelectIdx(_, _, _)
SelectIdx(seq, Keep(_), i) ==
    IF i > Len(seq) THEN << >>
    ELSE (IF Keep(i) THEN << seq[i] >> ELSE << >>) \o SelectIdx(seq, Keep, i + 1)

\* Flatten a sequence of sequences, in order
RECURSIVE Flatten(_)
Flatten(seqs) ==
    IF seqs = << >> THEN << >> ELSE Head(seqs) \o Flatten(Tail(seqs))

\* [...new Set(seq)]: the first occurrence of each value, in order
Unique(seq) ==
    SelectIdx(seq, LAMBDA i : ~ \E j \in 1 .. (i - 1) : StrictEq(seq[j], seq[i]), 1)

-----------------------------------------------------------------------------
(* The installed node types the extractor reads (n8n-nodes-base, an         *)
(* external package): a small set with the shapes the validators meet.      *)

Opt(name, value) == JObj(<< KV("name", JStr(name)), KV("value", JStr(value)) >>)

ShowWhen(key, values) ==
    JObj(<< KV("show", JObj(<< KV(key, JArr(values)) >>)) >>)

\* A parameter descriptor; Undefined stands for a key the descriptor lacks.
Descriptor(name, type, default, required, options, displayOptions) ==
    JObj(SelectSeq(<< KV("name", JStr(name)), KV("type", JStr(type)),
                      KV("default", default), KV("required", required),
                      KV("options", options),
                      KV("displayOptions", displayOptions) >>,
                   LAMBDA kv : kv.v # Undefined))

FilterDefaultOptions ==
    JObj(<< KV("caseSensitive", JBool(TRUE)), KV("leftValue", JStr("")),
            KV("typeValidation", JStr("strict")) >>)

\* If (versions 1, 2, 2.1, 2.2): a top-level filter parameter
IfProperties ==
    << Descriptor("conditions", "filter", JObj(<< >>), Undefined, Undefined, Undefined),
       Descriptor("options", "collection", JObj(<< >>), Undefined, JArr(<< >>), Undefined) >>

\* Switch (versions 1 .. 3.2): the filter sits inside the fixedCollection
SwitchProperties ==
    << Descriptor("mode", "options", JStr("rules"), Undefined,
                  JArr(<< Opt("Rules", "rules"), Opt("Expression", "expression") >>),
                  Undefined),
       Descriptor("rules", "fixedCollection",
                  JObj(<< KV("values", JArr(<< >>)) >>), Undefined,
                  JArr(<< JObj(<< KV("name", JStr("values")),
                                  KV("values", JArr(<<
                                      Descriptor("conditions", "filter", JObj(<< >>),
                                                 Undefined, Undefined, Undefined),
                                      Descriptor("outputKey", "string", JStr(""),
                                                 Undefined, Undefined, Undefined) >>)) >>) >>),
                  ShowWhen("mode", << JStr("rules") >>)),
       Descriptor("options", "collection", JObj(<< >>), Undefined, JArr(<< >>), Undefined) >>

\* A resource/operation node: `operation` is declared once per resource
CrmProperties ==
    << Descriptor("resource", "options", JStr("contact"), Undefined,
                  JArr(<< Opt("Contact", "contact"), Opt("Deal", "deal") >>), Undefined),
       Descriptor("operation", "options", JStr("create"), Undefined,
                  JArr(<< Opt("Create", "create"), Opt("Get", "get") >>),
                  ShowWhen("resource", << JStr("contact") >>)),
       Descriptor("operation", "options", JStr("create"), Undefined,
                  JArr(<< Opt("Create", "create"), Opt("Close", "close") >>),
                  ShowWhen("resource", << JStr("deal") >>)),
       Descriptor("email", "string", JStr(""), JBool(TRUE), Undefined,
                  ShowWhen("resource", << JStr("contact") >>)),
       Descriptor("dealName", "string", Undefined, Undefined, Undefined,
                  ShowWhen("resource", << JStr("deal") >>)),
       Descriptor("match", "filter", JObj(<< >>), Undefined, Undefined,
                  ShowWhen("resource", << JStr("contact") >>)),
       Descriptor("match", "filter", JObj(<< >>), Undefined, Undefined,
                  ShowWhen("resource", << JStr("deal") >>)),
       Descriptor("note", "string", Undefined, Undefined, Undefined, Undefined),
       Descriptor("limit", "number", JNum(50), Undefined, Undefined, Undefined),
       Descriptor("tags", "multiOptions", JArr(<< >>), Undefined,
                  JArr(<< Opt("VIP", "vip"), Opt("Lead", "lead") >>), Undefined) >>

\* One name declared with two types, the fixedCollection second
EditProperties ==
    << Descriptor("mode", "options", JStr("manual"), Undefined,
                  JArr(<< Opt("Manual", "manual"), Opt("Raw", "raw") >>), Undefined),
       Descriptor("fields", "string", JStr(""), Undefined, Undefined,
                  ShowWhen("mode", << JStr("raw") >>)),
       Descriptor("fields", "fixedCollection", JObj(<< >>), Undefined,
                  JArr(<< JObj(<< KV("name", JStr("values")),
                                  KV("values", JArr(<<
                                      Descriptor("name", "string", JStr(""),
                                                 Undefined, Undefined, Undefined) >>)) >>) >>),
                  ShowWhen("mode", << JStr("manual") >>)) >>

Description(name, version, properties) ==
    JObj(<< KV("name", JStr(name)), KV("version", version),
            KV("properties", JArr(properties)) >>)

\* A node instance as loadNodes keeps it: `versioned` is
\* `node instanceof VersionedNodeType`, nodeVersions its version-keyed map.
InstalledNodes ==
    << [name |-> "if", versioned |-> TRUE,
        description |-> JObj(<< KV("name", JStr("if")), KV("defaultVersion", JNum(22)) >>),
        nodeVersions |-> << [version |-> 10,
                             description |-> Description("if", JNum(10), << >>)],
                            [version |-> 20,
                             description |-> Description("if",
                                 JArr(<< JNum(20), JNum(21), JNum(22) >>), IfProperties)],
                            [version |-> 21,
                             description |-> Description("if",
                                 JArr(<< JNum(20), JNum(21), JNum(22) >>), IfProperties)],
                            [version |-> 22,
                             description |-> Description("if",
                                 JArr(<< JNum(20), JNum(21), JNum(22) >>), IfProperties)] >>,
        defaults |-> JObj(<< KV("conditions", JObj(<< >>)), KV("options", JObj(<< >>)) >>)],
       [name |-> "switch", versioned |-> TRUE,
        description |-> JObj(<< KV("name", JStr("switch")), KV("defaultVersion", JNum(32)) >>),
        nodeVersions |-> << [version |-> 10,
                             description |-> Description("switch", JNum(10), << >>)],
                            [version |-> 20,
                             description |-> Description("switch", JNum(20), << >>)],
                            [version |-> 30,
                             description |-> Description("switch",
                                 JArr(<< JNum(30), JNum(31), JNum(32) >>), SwitchProperties)],
                            [version |-> 31,
                             description |-> Description("switch",
                                 JArr(<< JNum(30), JNum(31), JNum(32) >>), SwitchProperties)],
                            [version |-> 32,
                             description |-> Description("switch",
                                 JArr(<< JNum(30), JNum(31), JNum(32) >>), SwitchProperties)] >>,
        defaults |-> JObj(<< KV("mode", JStr("rules")), KV("options", JObj(<< >>)) >>)],
       [name |-> "crm", versioned |-> FALSE,
        description |-> Description("crm", JNum(10), CrmProperties),
        nodeVersions |-> << >>,
        defaults |-> JObj(<< KV("resource", JStr("contact")),
                             KV("operation", JStr("create")) >>)],
       [name |-> "editFields", versioned |-> FALSE,
        description |-> Description("editFields", JArr(<< JNum(30), JNum(34) >>), EditProperties),
        nodeVersions |-> << >>,
        defaults |-> JObj(<< KV("mode", JStr("manual")) >>)],
       [name |-> "legacy", versioned |-> FALSE,
        description |-> Description("legacy", JArr(<< JNum(20), JNum(10) >>), << >>),
        nodeVersions |-> << >>,
        defaults |-> JObj(<< >>)] >>

-----------------------------------------------------------------------------
(* extract.ts: what Extractor.extractNodes writes for one node              *)

\* The keys of an object literal that JSON.stringify keeps: undefined-valued
\* keys are dropped, so the loaded schema has no such key.
Stringified(pairs) == JObj(SelectSeq(pairs, LAMBDA kv : kv.v # Undefined))

RECURSIVE SortAsc(_)
SortAsc(S) ==
    IF S = {} THEN << >>
    ELSE LET m == CHOOSE x \in S : \A y \in S : x <= y
         IN << m >> \o SortAsc(S \ {m})

\* VersionedNodeType.getLatestVersion (n8n-workflow): the highest key
GetLatestVersion(node) ==
    CHOOSE v \in {node.nodeVersions[i].version : i \in DOMAIN node.nodeVersions} :
        \A i \in DOMAIN node.nodeVersions : node.nodeVersions[i].version <= v

\* VersionedNodeType.getNodeType(version).description
GetNodeTypeDescription(node, version) ==
    IF \E i \in DOMAIN node.nodeVersions : node.nodeVersions[i].version = version
    THEN node.nodeVersions[CHOOSE i \in DOMAIN node.nodeVersions :
                               node.nodeVersions[i].version = version].description
    ELSE Undefined

getVersions(node) ==
    IF node.nodeVersions # << >>
    THEN LET sorted == SortAsc({node.nodeVersions[i].version : i \in DOMAIN node.nodeVersions})
         IN JArr([i \in DOMAIN sorted |-> JNum(sorted[i])])
    ELSE LET v == Get(node.description, "version")
         IN IF IsArray(v) THEN v ELSE JArr(<< v >>)

\* defVer = node.description?.defaultVersion ?? node.getLatestVersion()
DefVer(node) ==
    IF ~ node.versioned THEN Undefined
    ELSE IF ~ Nullish(Get(node.description, "defaultVersion"))
         THEN Get(node.description, "defaultVersion")
         ELSE JNum(GetLatestVersion(node))

Desc(node) ==
    IF node.versioned THEN GetNodeTypeDescription(node, DefVer(node).n)
    ELSE node.description

DescProperties(desc) ==
    IF Truthy(Get(desc, "properties")) THEN Get(desc, "properties").a ELSE << >>

\* What NodeHelpers.getNodeParameters does with the node is the field
\* `defaults` of the node: the parameters it returns, or Throws
Throws == [t |-> "throws"]

DefaultsThrow(node) == node.defaults = Throws

\* let defaults = {}; try { defaults = getNodeParameters(...) || {} } catch {}
computedDefaults(node) ==
    IF DefaultsThrow(node) \/ ~ Truthy(node.defaults) THEN JObj(<< >>) ELSE node.defaults

\* properties: (desc.properties || []).map(p => ({ name, type, default, ... }))
SchemaProperty(p) ==
    Stringified(<< KV("name", Get(p, "name")), KV("type", Get(p, "type")),
                   KV("default", Get(p, "default")), KV("required", Get(p, "required")),
                   KV("options", IF Truthy(Get(p, "options"))
                                 THEN Get(p, "options") ELSE Undefined),
                   KV("displayOptions", IF Truthy(Get(p, "displayOptions"))
                                        THEN Get(p, "displayOptions") ELSE Undefined) >>)

NodeSchema(node) ==
    LET desc == Desc(node)
        props == DescProperties(desc)
    IN Stringified(<<
        KV("name", Get(desc, "name")),
        KV("version", Get(desc, "version")),
        KV("defaults", computedDefaults(node)),
        KV("properties", JArr([i \in DOMAIN props |-> SchemaProperty(props[i])])),
        KV("hasVersions", JBool(node.versioned)),
        KV("availableVersions", IF node.versioned THEN getVersions(node) ELSE Undefined),
        KV("defaultVersion", IF Truthy(DefVer(node)) THEN DefVer(node) ELSE Undefined) >>)

\* One validation rule of extractNodes
Rule(p) ==
    LET type == IF Truthy(Get(p, "type")) THEN Get(p, "type") ELSE JStr("string")
        options == Get(p, "options")
        hasEnum == /\ IsArray(options) /\ Len(options.a) > 0
                   /\ Get(p, "type") \in {JStr("options"), JStr("multiOptions")}
    IN Stringified(<<
        KV("field", Get(p, "name")),
        KV("type", type),
        KV("required", JBool(\/ Get(p, "required") = JBool(TRUE)
                             \/ (/\ Get(p, "default") = Undefined
                                 /\ ~ Truthy(Get(p, "displayOptions"))))),
        KV("default", Get(p, "default")),
        KV("enumValues", IF hasEnum
                         THEN JArr([i \in DOMAIN options.a |->
                                 IF Get(options.a[i], "value") = Undefined
                                 THEN JNull ELSE Get(options.a[i], "value")])
                         ELSE Undefined),
        KV("displayOptions", IF Truthy(Get(p, "displayOptions"))
                             THEN Get(p, "displayOptions") ELSE Undefined) >>)

NodeValidation(node) ==
    LET desc == Desc(node)
        props == SelectSeq(DescProperties(desc), LAMBDA p : Truthy(Get(p, "name")))
    IN Stringified(<<
        KV("nodeType", JStr("n8n-nodes-base." \o node.name)),
        KV("version", Get(desc, "version")),
        KV("defaultVersion", IF Truthy(DefVer(node)) THEN DefVer(node) ELSE Undefined),
        KV("rules", JArr([i \in DOMAIN props |-> Rule(props[i])])),
        KV("computedDefaults", computedDefaults(node)) >>)

\* server.ts loadSchemas: the two maps the validators read, keyed by file name
loadSchemas ==
    [nodes |-> JObj([i \in DOMAIN InstalledNodes |->
                        KV(InstalledNodes[i].name, NodeSchema(InstalledNodes[i]))]),
     validations |-> JObj([i \in DOMAIN InstalledNodes |->
                        KV(InstalledNodes[i].name, NodeValidation(InstalledNodes[i]))])]

\* const schemas = loadSchemas(): loaded once at start-up, read-only afterwards
schemas == loadSchemas

-----------------------------------------------------------------------------
(* server.ts: the validation engine                                         *)

\* A ValidationError; `detail` keeps the list a message joins, before joining.
Issue(path, message, expected, received, hint, detail) ==
    [path |-> path, message |-> message, expected |-> expected,
     received |-> received, hint |-> hint, detail |-> detail]

\* The outcome of a call: a returned ValidationResult, or an exception.
Returned(errors, warnings) ==
    [threw |-> FALSE, valid |-> errors = << >>, errors |-> errors, warnings |-> warnings]

Threw == [threw |-> TRUE, valid |-> FALSE, errors |-> << >>, warnings |-> << >>]

\* nodeType.replace('n8n-nodes-base.', '').replace('@n8n/n8n-nodes-langchain.', '')
\* on the type strings the requests use
ShortType(nodeType) ==
    CASE nodeType = "n8n-nodes-base.if" -> "if"
      [] nodeType = "n8n-nodes-base.switch" -> "switch"
      [] nodeType = "n8n-nodes-base.crm" -> "crm"
      [] nodeType = "n8n-nodes-base.editFields" -> "editFields"
      [] nodeType = "n8n-nodes-base.legacy" -> "legacy"
      [] nodeType = "n8n-nodes-base.nope" -> "nope"
      [] nodeType = "@n8n/n8n-nodes-langchain.agent" -> "agent"
      [] OTHER -> nodeType

validateFilterValue(value, path) ==
    IF ~ TypeofObject(value) \/ value.t = "null"
    THEN << Issue(path, "Filter must be an object", Undefined, value, "", << >>) >>
    ELSE
      (IF ~ Truthy(Get(value, "options")) \/ ~ TypeofObject(Get(value, "options"))
       THEN << Issue(path \o ".options", "Filter missing required \"options\" object",
                     FilterDefaultOptions, Undefined,
                     "This is a common LLM mistake - options must be inside the filter object",
                     << >>) >>
       ELSE << >>)
      \o
      (IF ~ IsArray(Get(value, "conditions"))
       THEN << Issue(path \o ".conditions", "Filter missing required \"conditions\" array",
                     JArr(<< >>), Undefined, "", << >>) >>
       ELSE << >>)
      \o
      (IF ~ Truthy(Get(value, "combinator"))
       THEN << Issue(path \o ".combinator", "Filter missing required \"combinator\"",
                     JArr(<< JStr("and"), JStr("or") >>), Undefined,
                     "Add combinator: \"and\" or \"or\"", << >>) >>
       ELSE IF ~ Includes(<< JStr("and"), JStr("or") >>, Get(value, "combinator"))
       THEN << Issue(path \o ".combinator",
                     "Invalid combinator: " \o Stringify(Get(value, "combinator")),
                     JArr(<< JStr("and"), JStr("or") >>), Undefined, "", << >>) >>
       ELSE << >>)

\* schema.properties.find(p => p.name === field)
FindProperty(schema, field) ==
    LET props == Get(schema, "properties").a
    IN IF \E i \in DOMAIN props : Get(props[i], "name") = JStr(field)
       THEN props[CHOOSE i \in DOMAIN props :
                     /\ Get(props[i], "name") = JStr(field)
                     /\ \A j \in 1 .. (i - 1) : Get(props[j], "name") # JStr(field)]
       ELSE Undefined

validateFixedCollection(value, field, schema) ==
    IF ~ TypeofObject(value) \/ value.t = "null" THEN << >>
    ELSE LET prop == FindProperty(schema, field)
         IN IF Nullish(prop) \/ ~ Truthy(Get(prop, "options")) THEN << >>
            ELSE LET options == Get(prop, "options").a
                     validOptions == [i \in DOMAIN options |-> Get(options[i], "name")]
                     keys == ObjectKeys(value)
                     bad == SelectSeq(keys, LAMBDA key : ~ Includes(validOptions, JStr(key)))
                 IN [i \in DOMAIN bad |->
                       Issue("parameters." \o field \o "." \o bad[i],
                             "Invalid fixedCollection option: " \o bad[i],
                             JArr(validOptions), Undefined,
                             "Valid options for " \o field \o ": " \o Join(validOptions, ", "),
                             validOptions)]

\* The body of validateParameters' loop for one rule
validateRule(params, rule, schema) ==
    LET field == Get(rule, "field").s
        value == Get(params, field)
        enumValues == Get(rule, "enumValues")
    IN (IF Truthy(enumValues) /\ value # Undefined /\ ~ Includes(enumValues.a, value)
        THEN << Issue("parameters." \o field, "Invalid value for " \o field,
                      enumValues, value,
                      "Valid options: " \o Join(enumValues.a, ", "), enumValues.a) >>
        ELSE << >>)
       \o
       (IF Get(rule, "type") = JStr("filter") /\ value # Undefined
        THEN validateFilterValue(value, "parameters." \o field)
        ELSE << >>)
       \o
       (IF Get(rule, "type") = JStr("fixedCollection") /\ value # Undefined
        THEN validateFixedCollection(value, field, schema)
        ELSE << >>)

\* validateParameters: the errors and the warnings it pushes
validateParameters(params, validation, schema) ==
    LET rules == Get(validation, "rules").a
        knownFields == {Get(rules[i], "field").s : i \in DOMAIN rules}
        unknown == SelectSeq(ObjectKeys(params), LAMBDA key : key \notin knownFields)
    IN [errors |-> Flatten([i \in DOMAIN rules |-> validateRule(params, rules[i], schema)]),
        warnings |-> [i \in DOMAIN unknown |-> "Unknown parameter: " \o unknown[i]]]

requiredFields == << "type", "typeVersion", "position", "parameters" >>

\* const validVersions = schema.availableVersions || [schema.version].flat()
validVersions(schema) ==
    IF Truthy(Get(schema, "availableVersions"))
    THEN Get(schema, "availableVersions").a
    ELSE IF IsArray(Get(schema, "version"))
         THEN Get(schema, "version").a
         ELSE << Get(schema, "version") >>

\* schema.defaultVersion || validVersions[validVersions.length - 1]
latestVersion(schema) ==
    IF Truthy(Get(schema, "defaultVersion"))
    THEN Get(schema, "defaultVersion")
    ELSE IF validVersions(schema) = << >> THEN Undefined
         ELSE validVersions(schema)[Len(validVersions(schema))]

validateNode(cache, nodeConfig) ==
    IF Nullish(nodeConfig) THEN Threw          \* nodeConfig.type of null
    ELSE
    LET nodeType == IF Truthy(Get(nodeConfig, "type"))
                    THEN Get(nodeConfig, "type") ELSE JStr("")
    IN IF nodeType.t # "str" THEN Threw         \* nodeType.replace is not a function
       ELSE
       LET shortType == ShortType(nodeType.s)
           schema == Get(cache.nodes, shortType)
           validation == Get(cache.validations, shortType)
       IN IF ~ Truthy(schema)
          THEN [threw |-> FALSE, valid |-> FALSE,
                errors |-> << Issue("type", "Unknown node type: " \o nodeType.s,
                                    Undefined, Undefined, "Available nodes", << >>) >>,
                warnings |-> << >>]
          ELSE
          LET missing == SelectSeq(requiredFields,
                                   LAMBDA f : Get(nodeConfig, f) = Undefined)
              missingErrors ==
                  [i \in DOMAIN missing |->
                      Issue(missing[i], "Missing required field: " \o missing[i],
                            JStr(IF missing[i] = "position" THEN "[x, y]"
                                 ELSE IF missing[i] = "parameters" THEN "{}" ELSE "value"),
                            Undefined, "", << >>)]
              typeVersion == Get(nodeConfig, "typeVersion")
              versionErrors ==
                  IF typeVersion # Undefined
                     /\ ~ Includes(validVersions(schema), typeVersion)
                  THEN << Issue("typeVersion",
                                "Invalid typeVersion: " \o Stringify(typeVersion),
                                JArr(validVersions(schema)), typeVersion,
                                "Use " \o Stringify(latestVersion(schema)) \o " (latest)",
                                << >>) >>
                  ELSE << >>
              position == Get(nodeConfig, "position")
              positionErrors ==
                  IF position # Undefined /\ (~ IsArray(position) \/ Len(position.a) # 2)
                  THEN << Issue("position", "Position must be [x, y] array",
                                JArr(<< JNum(0), JNum(0) >>), position, "", << >>) >>
                  ELSE << >>
              parameters == Get(nodeConfig, "parameters")
              checked == IF Truthy(parameters) /\ Truthy(validation)
                         THEN validateParameters(parameters, validation, schema)
                         ELSE [errors |-> << >>, warnings |-> << >>]
          IN Returned(missingErrors \o versionErrors \o positionErrors \o checked.errors,
                      checked.warnings)

\* names.filter((n, i) => names.indexOf(n) !== i): indexOf finds the first
\* strictly equal element, which for an object or array is only itself.
Duplicates(names) ==
    SelectIdx(names,
              LAMBDA i : \E j \in 1 .. (i - 1) : StrictEq(names[j], names[i]), 1)

\* The innermost loop of validateWorkflow over one array of edges
\* (`conns`): conn.node of a null edge is a TypeError.
checkEdges(conns, nodeNames, path) ==
    IF \E i \in DOMAIN conns : Nullish(conns[i])
    THEN [threw |-> TRUE, errors |-> << >>]
    ELSE LET bad == SelectSeq(conns, LAMBDA conn :
                        /\ Truthy(Get(conn, "node"))
                        /\ ~ Includes(nodeNames, Get(conn, "node")))
         IN [threw |-> FALSE,
             errors |-> [i \in DOMAIN bad |->
                 Issue(path,
                       "Connection targets non-existent node: "
                           \o Stringify(Get(bad[i], "node")),
                       Undefined, Undefined, "", << Get(bad[i], "node") >>)]]

\* Several loop bodies in sequence: an exception in one ends them all
Sequenced(results) ==
    [threw |-> \E i \in DOMAIN results : results[i].threw,
     errors |-> Flatten([i \in DOMAIN results |-> results[i].errors])]

\* The body of the loop over Object.entries(workflow.connections)
checkSource(sourceName, outputs, nodeNames) ==
    LET sourceErrors ==
            IF ~ Includes(nodeNames, JStr(sourceName))
            THEN << Issue("connections." \o sourceName,
                          "Connection references non-existent node: " \o sourceName,
                          Undefined, Undefined, "", << JStr(sourceName) >>) >>
            ELSE << >>
        slots == IF Truthy(outputs) /\ TypeofObject(outputs)
                 THEN ObjectEntries(outputs) ELSE << >>
        perSlot == [i \in DOMAIN slots |->
            IF IsArray(slots[i].v)
            THEN Sequenced([c \in DOMAIN slots[i].v.a |->
                    IF IsArray(slots[i].v.a[c])
                    THEN checkEdges(slots[i].v.a[c].a, nodeNames,
                                    "connections." \o sourceName \o "." \o slots[i].k)
                    ELSE [threw |-> FALSE, errors |-> << >>]])
            ELSE [threw |-> FALSE, errors |-> << >>]]
    IN Sequenced(<< [threw |-> FALSE, errors |-> sourceErrors] >> \o perSlot)

validateWorkflow(cache, workflow) ==
    IF Nullish(workflow) THEN Threw              \* workflow.nodes of null
    ELSE
    LET nodes == Get(workflow, "nodes")
        connections == Get(workflow, "connections")
        nodesErrors ==
            IF ~ Truthy(nodes) \/ ~ IsArray(nodes)
            THEN << Issue("nodes", "Workflow must have a \"nodes\" array",
                          JArr(<< >>), Undefined, "", << >>) >>
            ELSE << >>
        connectionsErrors ==
            IF ~ Truthy(connections) \/ ~ TypeofObject(connections)
            THEN << Issue("connections", "Workflow must have a \"connections\" object",
                          JObj(<< >>), Undefined, "", << >>) >>
            ELSE << >>
    IN IF ~ IsArray(nodes)
       THEN Returned(nodesErrors \o connectionsErrors, << >>)
       ELSE
       LET results == [i \in DOMAIN nodes.a |-> validateNode(cache, nodes.a[i])]
           nodeErrors == Flatten([i \in DOMAIN results |->
               [e \in DOMAIN results[i].errors |->
                   [results[i].errors[e] EXCEPT
                       !.path = "nodes[" \o ToString(i - 1) \o "]." \o @]]])
           nodeWarnings == Flatten([i \in DOMAIN results |->
               [w \in DOMAIN results[i].warnings |->
                   "nodes[" \o ToString(i - 1) \o "]: " \o results[i].warnings[w]]])
       IN IF \E i \in DOMAIN results : results[i].threw THEN Threw
          ELSE
          LET names == SelectSeq([i \in DOMAIN nodes.a |-> Get(nodes.a[i], "name")], Truthy)
              duplicates == Duplicates(names)
              duplicateErrors ==
                  IF Len(duplicates) > 0
                  THEN << Issue("nodes",
                                "Duplicate node names: " \o Join(Unique(duplicates), ", "),
                                Undefined, Undefined,
                                "Each node must have a unique name",
                                Unique(duplicates)) >>
                  ELSE << >>
              entries == IF Truthy(connections) THEN ObjectEntries(connections) ELSE << >>
              checks == Sequenced([i \in DOMAIN entries |->
                            checkSource(entries[i].k, entries[i].v, names)])
          IN IF checks.threw THEN Threw
             ELSE Returned(nodesErrors \o connectionsErrors \o nodeErrors
                               \o duplicateErrors \o checks.errors,
                           nodeWarnings)

-----------------------------------------------------------------------------
(* The request bodies of the model                                          *)

MaxNodes == 2
MaxEdges == 1

NodeNames == {"A", "B"}

\* All sequences over S of length at most n
RECURSIVE SeqsUpTo(_, _)
SeqsUpTo(S, n) ==
    IF n = 0 THEN {<< >>}
    ELSE LET shorter == SeqsUpTo(S, n - 1)
         IN shorter \cup {Append(q, x) : q \in {r \in shorter : Len(r) = n - 1}, x \in S}

NodeInstance(name, type, typeVersion, position, parameters) ==
    Stringified(<< KV("name", name), KV("type", type), KV("typeVersion", typeVersion),
                   KV("position", position), KV("parameters", parameters) >>)

Origin == JArr(<< JNum(0), JNum(0) >>)

\* A node of a workflow document that validateNode accepts
GoodNode(name) ==
    NodeInstance(name, JStr("n8n-nodes-base.if"), JNum(22), Origin, JObj(<< >>))

\* The entries a `nodes` array holds: well-formed nodes named A, B, "" or
\* not at all, a node of unknown type, and the malformed entries
WorkflowNodeEntries ==
    {GoodNode(JStr(n)) : n \in NodeNames}
    \cup {GoodNode(Undefined), GoodNode(JStr("")),
          NodeInstance(JStr("B"), JStr("n8n-nodes-base.nope"), JNum(10), Origin, JObj(<< >>)),
          NodeInstance(JStr("A"), JNum(7), JNum(10), Origin, JObj(<< >>)),
          JNull, JNum(5)}

Edge(target) ==
    JObj(<< KV("node", target), KV("type", JStr("main")), KV("index", JNum(0)) >>)

EdgeValues ==
    {Edge(JStr(n)) : n \in NodeNames}
    \cup {Edge(JStr("")), JObj(<< KV("type", JStr("main")) >>), JNull}

Outputs(edges) == JObj(<< KV("main", JArr(<< JArr(edges) >>)) >>)

ConnectionsValues ==
    {Undefined, JNull, JNum(5), JArr(<< >>), JArr(<< Outputs(<< Edge(JStr("A")) >>) >>),
     JObj(<< >>),
     JObj(<< KV("A", JNull) >>),
     JObj(<< KV("A", Outputs(<< Edge(JStr("B")) >>)),
             KV("B", Outputs(<< Edge(JStr("A")) >>)) >>),
     JObj(<< KV("A", JObj(<< KV("main", JArr(<< JArr(<< Edge(JStr("B")) >>),
                                                   JArr(<< Edge(JStr("B")) >>) >>)) >>)) >>)}
    \cup {JObj(<< KV(src, Outputs(edges)) >>) :
              src \in NodeNames, edges \in SeqsUpTo(EdgeValues, MaxEdges) \ {<< >>}}

NodesValues ==
    {Undefined, JNull, JObj(<< >>), JStr("x")}
    \cup {JArr(q) : q \in SeqsUpTo(WorkflowNodeEntries, MaxNodes)}

WorkflowBodies ==
    {JNull, JNum(5), JStr("workflow")}
    \cup {Stringified(<< KV("nodes", n), KV("connections", c) >>) :
              n \in NodesValues, c \in ConnectionsValues}

\* Values bound to a filter-typed field
FilterOptionsValues ==
    {Undefined, JNull, JStr("x"), JObj(<< >>), FilterDefaultOptions,
     JObj(<< KV("caseSensitive", JBool(TRUE)), KV("typeValidation", JStr("strict")) >>),
     JObj(<< KV("caseSensitive", JBool(TRUE)), KV("leftValue", JStr("")),
             KV("typeValidation", JStr("bogus")) >>)}

FilterValues ==
    {JStr("abc"), JNull, JNum(5), JBool(FALSE), JArr(<< >>)}
    \cup {Stringified(<< KV("options", o), KV("conditions", c), KV("combinator", k) >>) :
              o \in FilterOptionsValues,
              c \in {Undefined, JArr(<< >>), JStr("x")},
              k \in {Undefined, JStr("and"), JStr("or"), JStr("xor"), JStr("")}}

IfBodies ==
    {NodeInstance(JStr("A"), JStr("n8n-nodes-base.if"), JNum(22), Origin,
                  JObj(<< KV("conditions", fv) >>)) : fv \in FilterValues}

CrmBodies ==
    {NodeInstance(JStr("A"), JStr("n8n-nodes-base.crm"), JNum(10), Origin,
                  Stringified(<< KV("resource", r), KV("operation", op), KV("email", e),
                                 KV("dealName", d), KV("note", n), KV("match", f) >>)) :
        r \in {Undefined, JStr("contact"), JStr("deal"), JStr("bogus")},
        op \in {Undefined, JStr("create"), JStr("get"), JStr("close"), JStr("bogus")},
        e \in {Undefined, JStr("a@b.c")},
        d \in {Undefined, JStr("big deal")},
        n \in {Undefined, JStr("a note")},
        f \in {Undefined, JObj(<< KV("conditions", JArr(<< >>)) >>),
               JObj(<< KV("options", FilterDefaultOptions), KV("conditions", JArr(<< >>)),
                       KV("combinator", JStr("or")) >>)}}

\* Instances that submit the multiOptions field
TagsValues ==
    {JArr(<< >>), JArr(<< JStr("vip") >>), JArr(<< JStr("vip"), JStr("lead") >>),
     JArr(<< JStr("bogus") >>), JArr(<< JStr("vip"), JStr("bogus") >>), JStr("vip")}

TagBodies ==
    {NodeInstance(JStr("A"), JStr("n8n-nodes-base.crm"), JNum(10), Origin,
                  JObj(<< KV("resource", JStr("contact")), KV("operation", JStr("create")),
                          KV("email", JStr("a@b.c")), KV("tags", tags) >>)) :
        tags \in TagsValues}

SwitchRule(conditions) == JObj(<< KV("conditions", conditions) >>)

SwitchRulesValues ==
    {Undefined, JStr("rules"), JObj(<< >>),
     JObj(<< KV("bogus", JArr(<< >>)) >>),
     JObj(<< KV("values", JArr(<< >>)), KV("fallbackOutput", JStr("extra")) >>)}
    \cup {JObj(<< KV("values", JArr(<< SwitchRule(fv) >>)) >>) :
              fv \in {JObj(<< KV("conditions", JArr(<< >>)), KV("combinator", JStr("and")) >>),
                      JObj(<< KV("options", FilterDefaultOptions),
                              KV("conditions", JArr(<< >>)),
                              KV("combinator", JStr("and")) >>),
                      JStr("abc"), JObj(<< >>)}}

SwitchBodies ==
    {NodeInstance(JStr("A"), JStr("n8n-nodes-base.switch"), v, Origin,
                  Stringified(<< KV("mode", m), KV("rules", r) >>)) :
        v \in {Undefined, JNum(30), JNum(32), JNum(99)},
        m \in {Undefined, JStr("rules")},
        r \in SwitchRulesValues}

EditBodies ==
    {NodeInstance(JStr("A"), JStr("n8n-nodes-base.editFields"), JNum(34), Origin,
                  Stringified(<< KV("mode", m), KV("fields", f) >>)) :
        m \in {Undefined, JStr("manual"), JStr("raw")},
        f \in {Undefined, JStr("raw text"), JObj(<< >>),
               JObj(<< KV("values", JArr(<< >>)) >>),
               JObj(<< KV("bogus", JArr(<< >>)) >>),
               JObj(<< KV("values", JArr(<< >>)), KV("other", JArr(<< >>)) >>),
               JArr(<< JStr("x") >>)}}

\* Instances with every combination of the four top-level fields missing,
\* malformed or well-formed
TypeValues ==
    {Undefined, JStr(""), JStr("n8n-nodes-base.if"), JStr("n8n-nodes-base.crm"),
     JStr("n8n-nodes-base.editFields"), JStr("n8n-nodes-base.legacy")}

TypeVersionValues ==
    {Undefined, JNull, JNum(10), JNum(22), JNum(30), JNum(34), JNum(99), JStr("22")}

PositionValues ==
    {Undefined, JNull, Origin, JArr(<< JNum(0) >>),
     JArr(<< JNum(0), JNum(0), JNum(0) >>), JStr("ab"), JObj(<< >>),
     JArr(<< JNum(0), JStr("x") >>), JArr(<< JNull, JNull >>)}

ShapeBodies ==
    {NodeInstance(JStr("A"), t, v, p, q) :
        t \in TypeValues, v \in TypeVersionValues, p \in PositionValues,
        q \in {Undefined, JObj(<< >>)}}

NodeBodies ==
    IfBodies \cup CrmBodies \cup SwitchBodies \cup EditBodies \cup ShapeBodies
    \cup TagBodies
    \cup {JNull, JNum(5), JObj(<< >>),
          NodeInstance(JStr("A"), JNum(7), JNum(10), Origin, JObj(<< >>)),
          NodeInstance(JStr("A"), JStr("n8n-nodes-base.nope"), JNum(10), Origin, JObj(<< >>))}

-----------------------------------------------------------------------------
(* The server: one request at a time (server.ts 526-574)                    *)

NoOutcome == Returned(<< >>, << >>)

NoDocument == [kind |-> "none", doc |-> JNull, sent |-> JNull, calls |-> 0]

\* Map.prototype.set on cache.nodes: replace the entry of the key, or add it
MapSet(entries, key, value) ==
    IF \E i \in DOMAIN entries : entries[i].k = key
    THEN [i \in DOMAIN entries |->
             IF entries[i].k = key THEN KV(key, value) ELSE entries[i]]
    ELSE Append(entries, KV(key, value))

RECURSIVE MapSetAll(_, _)
MapSetAll(entries, sets) ==
    IF sets = << >> THEN entries
    ELSE MapSetAll(MapSet(entries, Head(sets).k, Head(sets).v), Tail(sets))

\* The cache the validators read: what loadSchemas built, with every later
\* write applied
Cache ==
    IF cacheSets = << >> THEN schemas
    ELSE [schemas EXCEPT !.nodes = JObj(MapSetAll(schemas.nodes.o, cacheSets))]

\* A validation call that writes the schema's default version into an
\* instance it finds with an unavailable typeVersion
CoercingCall(kind, doc) ==
    [doc |-> IF /\ kind = "node" /\ doc.t = "obj"
                /\ Get(doc, "typeVersion") = JNum(99)
             THEN JObj([i \in DOMAIN doc.o |->
                          IF doc.o[i].k = "typeVersion"
                          THEN KV("typeVersion", JNum(22)) ELSE doc.o[i]])
             ELSE doc,
     sets |-> << >>]

\* What a call of validateNode or validateWorkflow leaves behind besides its
\* result: the argument as it was (neither function assigns to a property of
\* nodeConfig or workflow) and no write to the cache (schemas is only read
\* with .get and .keys).
ValidationCall(kind, doc) == [doc |-> doc, sets |-> << >>]

Validate(kind, doc) ==
    IF kind = "workflow" THEN validateWorkflow(Cache, doc) ELSE validateNode(Cache, doc)

\* newStats()
newStats == [created |-> 0, updated |-> 0, unchanged |-> 0, changedFiles |-> << >>]

Init ==
    /\ files = << >>
    /\ stats = newStats
    /\ reqKind = "none"
    /\ reqBody = JNull
    /\ native = "none"
    /\ outcome = NoOutcome
    /\ status = 0
    /\ pc = "idle"
    /\ cacheSets = << >>
    /\ held = NoDocument
    /\ first = NoOutcome
    /\ again = NoOutcome

\* req.on('end'): a POST /validate/workflow whose body parsed as JSON
ReceiveWorkflow(body) ==
    /\ pc = "idle"
    /\ reqKind' = "workflow"
    /\ reqBody' = body
    /\ pc' = "received"
    /\ UNCHANGED << files, stats, native, outcome, status, cacheSets, held, first, again >>

\* req.on('end'): a POST /validate/node whose body parsed as JSON
ReceiveNode(body) ==
    /\ pc = "idle"
    /\ reqKind' = "node"
    /\ reqBody' = body
    /\ pc' = "received"
    /\ UNCHANGED << files, stats, native, outcome, status, cacheSets, held, first, again >>

\* route('POST', '/validate/workflow'): the catch answers 400
HandleWorkflow ==
    /\ pc = "received" /\ reqKind = "workflow"
    /\ outcome' = validateWorkflow(Cache, reqBody)
    /\ status' = IF outcome'.threw THEN 400 ELSE 200
    /\ reqBody' = ValidationCall("workflow", reqBody).doc
    /\ cacheSets' = cacheSets \o ValidationCall("workflow", reqBody).sets
    /\ pc' = "responded"
    /\ UNCHANGED << files, stats, reqKind, native, held, first, again >>

\* route('POST', '/validate/node')
HandleNode ==
    /\ pc = "received" /\ reqKind = "node"
    /\ outcome' = validateNode(Cache, reqBody)
    /\ status' = IF outcome'.threw THEN 400 ELSE 200
    /\ reqBody' = ValidationCall("node", reqBody).doc
    /\ cacheSets' = cacheSets \o ValidationCall("node", reqBody).sets
    /\ pc' = "responded"
    /\ UNCHANGED << files, stats, reqKind, native, held, first, again >>

\* The response is sent and logged; nothing of the request is kept
Respond ==
    /\ pc = "responded"
    /\ reqKind' = "none"
    /\ reqBody' = JNull
    /\ native' = "none"
    /\ outcome' = NoOutcome
    /\ status' = 0
    /\ pc' = "idle"
    /\ UNCHANGED << files, stats, cacheSets, held, first, again >>

NextWorkflow ==
    \/ \E body \in WorkflowBodies : ReceiveWorkflow(body)
    \/ HandleWorkflow
    \/ Respond

NextNode ==
    \/ \E body \in NodeBodies : ReceiveNode(body)
    \/ HandleNode
    \/ Respond

Next ==
    \/ \E body \in WorkflowBodies : ReceiveWorkflow(body)
    \/ \E body \in NodeBodies : ReceiveNode(body)
    \/ HandleWorkflow
    \/ HandleNode
    \/ Respond

Spec == Init /\ [][Next]_vars
SpecWorkflow == Init /\ [][NextWorkflow]_vars
SpecNode == Init /\ [][NextNode]_vars

-----------------------------------------------------------------------------
(* Vocabulary of the properties                                             *)

Range(seq) == {seq[i] : i \in DOMAIN seq}

Count(seq, P(_)) == Cardinality({i \in DOMAIN seq : P(seq[i])})

WorkflowDone == pc = "responded" /\ reqKind = "workflow"
NodeDone == pc = "responded" /\ reqKind = "node"

BodyNodes == Get(reqBody, "nodes")
BodyConnections == Get(reqBody, "connections")

\* The error validateWorkflow reports for the entry at (0-based) index i
PrefixedError(i, e) == [e EXCEPT !.path = "nodes[" \o ToString(i) \o "]." \o @]

NodesStructuralError(e) ==
    e.path = "nodes" /\ e.message = "Workflow must have a \"nodes\" array"

ConnectionsStructuralError(e) ==
    e.path = "connections" /\ e.message = "Workflow must have a \"connections\" object"

DuplicateNamesError(e) == e.hint = "Each node must have a unique name"

DanglingSource(e, key) ==
    e.message = "Connection references non-existent node: " \o key

DanglingTarget(e, target) ==
    e.message = "Connection targets non-existent node: " \o Stringify(target)

\* The `name` values the nodes of the document carry
PresentNames ==
    {Get(BodyNodes.a[i], "name") : i \in DOMAIN BodyNodes.a} \ {Undefined}

NameCount(name) ==
    Cardinality({i \in DOMAIN BodyNodes.a : Get(BodyNodes.a[i], "name") = name})

\* Every edge of every output-slot array of the document, as << source, edge >>
DocumentEdges ==
    IF BodyConnections.t # "obj" THEN {}
    ELSE UNION {
        LET outputs == BodyConnections.o[s].v
        IN IF outputs.t # "obj" THEN {}
           ELSE UNION { LET slot == outputs.o[t].v
                        IN IF slot.t # "arr" THEN {}
                           ELSE UNION { IF slot.a[c].t # "arr" THEN {}
                                        ELSE {<< BodyConnections.o[s].k, slot.a[c].a[e] >> :
                                                  e \in DOMAIN slot.a[c].a} :
                                        c \in DOMAIN slot.a } :
                        t \in DOMAIN outputs.o } :
        s \in DOMAIN BodyConnections.o }

\* C1: validateWorkflow returns a result for every parsed body and never
\* throws; a malformed entry becomes an issue, and the findings for every
\* other node entry of the document are still in the result.
C1_NeverThrows ==
    WorkflowDone =>
        /\ ~ outcome.threw
        /\ status = 200
        /\ (Nullish(reqBody) \/ ~ TypeofObject(reqBody)) => ~ outcome.valid
        /\ IsArray(BodyNodes) =>
             \A i \in DOMAIN BodyNodes.a :
                LET alone == validateNode(schemas, BodyNodes.a[i])
                IN IF alone.threw
                   THEN ~ outcome.valid
                   ELSE \A e \in Range(alone.errors) :
                            PrefixedError(i - 1, e) \in Range(outcome.errors)

\* C2: a returned result holds a structural error on `nodes` exactly when
\* `nodes` is absent or not an array, and one on `connections` exactly when
\* `connections` is absent or not a non-array object; when `nodes` is not an
\* array the result is returned, invalid, with the structural errors alone.
C2_StructuralErrors ==
    (WorkflowDone /\ reqBody.t = "obj") =>
        /\ ~ outcome.threw =>
             /\ (\E e \in Range(outcome.errors) : NodesStructuralError(e))
                    <=> ~ IsArray(BodyNodes)
             /\ (\E e \in Range(outcome.errors) : ConnectionsStructuralError(e))
                    <=> BodyConnections.t # "obj"
        /\ ~ IsArray(BodyNodes) =>
             /\ ~ outcome.threw
             /\ ~ outcome.valid
             /\ \A e \in Range(outcome.errors) :
                    NodesStructuralError(e) \/ ConnectionsStructuralError(e)

\* C3: for a document whose `nodes` is an array, every key of `connections`
\* that names no node yields a dangling-source issue naming the key, and
\* every edge whose `node` names no node yields a dangling-target issue
\* naming the target; neither issue stands for the other.
C3_DanglingReferences ==
    (WorkflowDone /\ reqBody.t = "obj" /\ IsArray(BodyNodes)) =>
        /\ BodyConnections.t = "obj" =>
             \A s \in DOMAIN BodyConnections.o :
                LET key == BodyConnections.o[s].k
                IN JStr(key) \notin PresentNames =>
                       \E e \in Range(outcome.errors) :
                           DanglingSource(e, key) /\ e.path = "connections." \o key
        /\ \A se \in DocumentEdges :
              LET target == Get(se[2], "node")
              IN (target # Undefined /\ target \notin PresentNames) =>
                     \E e \in Range(outcome.errors) :
                         /\ DanglingTarget(e, target)
                         /\ ~ DanglingSource(e, Stringify(target))
        /\ \A e \in Range(outcome.errors) :
              \A n \in NodeNames :
                  /\ DanglingSource(e, n) => JStr(n) \notin PresentNames
                  /\ DanglingTarget(e, JStr(n)) => JStr(n) \notin PresentNames

\* C4: for a document whose `nodes` is an array, a duplicate-names issue is
\* emitted iff some present name is carried by more than one node; there is
\* at most one such issue and it lists every duplicated name exactly once.
C4_DuplicateNames ==
    (WorkflowDone /\ reqBody.t = "obj" /\ IsArray(BodyNodes)) =>
        LET duplicated == {n \in PresentNames : NameCount(n) > 1}
            reports == SelectSeq(outcome.errors, DuplicateNamesError)
        IN /\ Len(reports) = (IF duplicated = {} THEN 0 ELSE 1)
           /\ \A r \in Range(reports) :
                 /\ Range(r.detail) = duplicated
                 /\ Len(r.detail) = Cardinality(duplicated)
                 /\ r.message = "Duplicate node names: " \o Join(r.detail, ", ")

-----------------------------------------------------------------------------
(* Node-level properties                                                    *)

BodyType == Get(reqBody, "type")
BodyParams == Get(reqBody, "parameters")

\* The request names a node type the cache holds, so the checks run
BodyKnown ==
    /\ reqBody.t = "obj"
    /\ BodyType.t = "str"
    /\ Truthy(Get(schemas.nodes, ShortType(BodyType.s)))

BodySchema == Get(schemas.nodes, ShortType(BodyType.s))
BodyRules == Get(Get(schemas.validations, ShortType(BodyType.s)), "rules").a
BodyProps == Get(BodySchema, "properties").a

\* Visibility of a descriptor (or rule) under a context: every `show` key
\* the context decides holds a listed value, every `hide` key it decides
\* holds none; an undecided key does not hide the descriptor.
Visible(descriptor, context) ==
    LET show == Get(Get(descriptor, "displayOptions"), "show")
        hide == Get(Get(descriptor, "displayOptions"), "hide")
    IN /\ show.t = "obj" =>
            \A i \in DOMAIN show.o :
                \/ Get(context, show.o[i].k) = Undefined
                \/ Includes(show.o[i].v.a, Get(context, show.o[i].k))
       /\ hide.t = "obj" =>
            \A i \in DOMAIN hide.o :
                \/ Get(context, hide.o[i].k) = Undefined
                \/ ~ Includes(hide.o[i].v.a, Get(context, hide.o[i].k))

ErrorsAt(path) == SelectSeq(outcome.errors, LAMBDA e : e.path = path)

EnumError(e, field) ==
    e.path = "parameters." \o field /\ e.message = "Invalid value for " \o field

\* C5: when a name is declared several times with different displayOptions
\* and enums, a value in the enum of the one declaration visible under the
\* instance's parameters yields no enum error.
C5_EnumOfVisibleDeclaration ==
    (NodeDone /\ BodyKnown /\ BodyParams.t = "obj") =>
        \A i \in DOMAIN BodyRules :
            LET rule == BodyRules[i]
                field == Get(rule, "field").s
                value == Get(BodyParams, field)
                others == {j \in DOMAIN BodyRules \ {i} :
                              Get(BodyRules[j], "field") = Get(rule, "field")}
            IN (/\ Truthy(Get(rule, "enumValues"))
                /\ Visible(rule, BodyParams)
                /\ \A j \in others : ~ Visible(BodyRules[j], BodyParams)
                /\ value # Undefined
                /\ Includes(Get(rule, "enumValues").a, value))
               => ~ \E e \in Range(outcome.errors) : EnumError(e, field)

\* C6: every descriptor that is visible under the instance's parameters and
\* required (marked required, or without default) and has no value is
\* reported; a name none of whose declarations is visible is not.
C6_RequiredVisibleReported ==
    (NodeDone /\ BodyKnown /\ BodyParams.t = "obj") =>
        \A i \in DOMAIN BodyProps :
            LET p == BodyProps[i]
                field == Get(p, "name").s
                required == \/ Get(p, "required") = JBool(TRUE)
                            \/ Get(p, "default") = Undefined
                declared == {j \in DOMAIN BodyProps :
                                Get(BodyProps[j], "name") = Get(p, "name")}
            IN Get(BodyParams, field) = Undefined =>
                /\ (Visible(p, BodyParams) /\ required)
                       => ErrorsAt("parameters." \o field) # << >>
                /\ (\A j \in declared : ~ Visible(BodyProps[j], BodyParams))
                       => ErrorsAt("parameters." \o field) = << >>

FilterFields ==
    {Get(BodyRules[i], "field").s : i \in {j \in DOMAIN BodyRules :
                                            Get(BodyRules[j], "type") = JStr("filter")}}

AboutConditionsOrCombinator(e) ==
    e.message \in {"Filter missing required \"conditions\" array",
                   "Filter missing required \"combinator\"",
                   "Invalid combinator: xor"}

\* C7: a value bound to a filter-typed field that lacks `options`
\* gets exactly one issue at <field>.options, whatever else is wrong with it.
C7_ExactlyOneOptionsIssue ==
    (NodeDone /\ BodyKnown /\ BodyParams.t = "obj") =>
        \A field \in FilterFields :
            LET value == Get(BodyParams, field)
            IN (value # Undefined /\ Get(value, "options") = Undefined) =>
                /\ Len(ErrorsAt("parameters." \o field \o ".options")) = 1
                /\ \A e \in Range(outcome.errors) :
                      AboutConditionsOrCombinator(e)
                          => e.path # "parameters." \o field \o ".options"

\* The fixed filter shape: options {caseSensitive, leftValue, typeValidation
\* in {strict, loose}}, a conditions array, a combinator in {and, or}
WellFormedFilter(value) ==
    /\ value.t = "obj"
    /\ Get(value, "options").t = "obj"
    /\ \A key \in {"caseSensitive", "leftValue", "typeValidation"} :
          Get(Get(value, "options"), key) # Undefined
    /\ Get(Get(value, "options"), "typeValidation") \in {JStr("strict"), JStr("loose")}
    /\ IsArray(Get(value, "conditions"))
    /\ Get(value, "combinator") \in {JStr("and"), JStr("or")}

FilterPaths(path) ==
    {path} \cup {path \o suffix :
                    suffix \in {".options", ".conditions", ".combinator",
                                ".options.caseSensitive", ".options.leftValue",
                                ".options.typeValidation"}}

\* C8: a value bound to a filter-typed field that departs from the fixed
\* filter shape, the keys of its `options` object included, is reported.
C8_FilterOptionsKeysRequired ==
    (NodeDone /\ BodyKnown /\ BodyParams.t = "obj") =>
        \A field \in FilterFields :
            LET value == Get(BodyParams, field)
            IN (value # Undefined /\ ~ WellFormedFilter(value)) =>
                \E e \in Range(outcome.errors) :
                    e.path \in FilterPaths("parameters." \o field)

\* C9: the filter inside a rule of the switch node's `rules` collection is
\* checked like a top-level one: with typeVersion 3.2, a rule whose
\* `conditions` object has no `options` yields the missing-options error.
C9_NestedFilterChecked ==
    (/\ NodeDone /\ BodyKnown /\ BodyParams.t = "obj"
     /\ BodyType = JStr("n8n-nodes-base.switch")
     /\ Get(reqBody, "typeVersion") = JNum(32)
     /\ IsArray(Get(Get(BodyParams, "rules"), "values"))) =>
        \A k \in DOMAIN Get(Get(BodyParams, "rules"), "values").a :
            LET conditions == Get(Get(Get(BodyParams, "rules"), "values").a[k],
                                  "conditions")
            IN (conditions.t = "obj" /\ Get(conditions, "options") = Undefined) =>
                \E e \in Range(outcome.errors) :
                    e.message = "Filter missing required \"options\" object"

FixedCollectionError(e, field, key) ==
    /\ e.path = "parameters." \o field \o "." \o key
    /\ e.message = "Invalid fixedCollection option: " \o key

\* C10: for an object bound to a fixedCollection-typed field, the keys
\* reported are exactly its keys that are not option names of that
\* fixedCollection descriptor, each error listing the valid names, also when
\* the name is declared earlier with another type.
C10_FixedCollectionKeys ==
    (NodeDone /\ BodyKnown /\ BodyParams.t = "obj") =>
        \A i \in DOMAIN BodyProps :
            LET p == BodyProps[i]
                field == Get(p, "name").s
                value == Get(BodyParams, field)
                names == {Get(Get(p, "options").a[o], "name") :
                             o \in DOMAIN Get(p, "options").a}
            IN (Get(p, "type") = JStr("fixedCollection") /\ value.t = "obj") =>
                \A k \in DOMAIN value.o :
                    LET key == value.o[k].k
                        reports == SelectSeq(outcome.errors,
                                      LAMBDA e : FixedCollectionError(e, field, key))
                    IN /\ (reports # << >>) <=> (JStr(key) \notin names)
                       /\ \A e \in Range(reports) : Range(e.detail) = names

-----------------------------------------------------------------------------
(* Top-level fields of a node instance                                      *)

\* The version numbers the schema of the request's node type offers
AvailableVersions ==
    IF Get(BodySchema, "availableVersions") # Undefined
    THEN Range(Get(BodySchema, "availableVersions").a)
    ELSE IF IsArray(Get(BodySchema, "version"))
         THEN Range(Get(BodySchema, "version").a)
         ELSE {Get(BodySchema, "version")}

HighestVersion ==
    CHOOSE v \in AvailableVersions : \A w \in AvailableVersions : w.n <= v.n

TypeVersionError(e) ==
    /\ e.path = "typeVersion"
    /\ e.message = "Invalid typeVersion: " \o Stringify(Get(reqBody, "typeVersion"))

\* C11: a typeVersion error is reported exactly when the instance's
\* typeVersion is present and not among the schema's available versions; its
\* hint names the schema's defaultVersion, else the highest available
\* version, and the error carries the submitted typeVersion unchanged.
C11_TypeVersionMembership ==
    (NodeDone /\ BodyKnown) =>
        LET typeVersion == Get(reqBody, "typeVersion")
            latest == IF Get(BodySchema, "defaultVersion") # Undefined
                      THEN Get(BodySchema, "defaultVersion") ELSE HighestVersion
        IN /\ (\E e \in Range(outcome.errors) : TypeVersionError(e))
                  <=> (typeVersion # Undefined /\ typeVersion \notin AvailableVersions)
           /\ Len(SelectSeq(outcome.errors, TypeVersionError)) <= 1
           /\ \A e \in Range(outcome.errors) :
                  TypeVersionError(e) =>
                      /\ e.hint = "Use " \o Stringify(latest) \o " (latest)"
                      /\ e.received = typeVersion
                      /\ Range(e.expected.a) = AvailableVersions

\* C12: an instance whose type matches no schema gets exactly one issue, of
\* warning severity, and no further check; the result stays valid.
C12_UnknownTypeIsWarning ==
    (/\ NodeDone /\ reqBody.t = "obj"
     /\ BodyType.t = "str" /\ BodyType.s # ""
     /\ ~ Truthy(Get(schemas.nodes, ShortType(BodyType.s)))) =>
        /\ ~ outcome.threw
        /\ outcome.errors = << >>
        /\ Len(outcome.warnings) = 1
        /\ outcome.valid

MissingFieldError(e, field) ==
    e.path = field /\ e.message = "Missing required field: " \o field

\* C13: the four presence checks are independent: a missing-field issue is
\* reported for each of type, typeVersion, position and parameters that the
\* instance lacks, and for none that it has.
C13_PresenceChecksIndependent ==
    (NodeDone /\ reqBody.t = "obj" /\ ~ outcome.threw) =>
        \A i \in DOMAIN requiredFields :
            (\E e \in Range(outcome.errors) : MissingFieldError(e, requiredFields[i]))
                <=> (Get(reqBody, requiredFields[i]) = Undefined)

TwoNumbers(position) ==
    /\ IsArray(position)
    /\ Len(position.a) = 2
    /\ \A i \in DOMAIN position.a : position.a[i].t = "num"

\* C14: a position that is present and is not an array of exactly two
\* numbers is reported as an error at `position`.
C14_PositionTwoNumbers ==
    (NodeDone /\ BodyKnown) =>
        LET position == Get(reqBody, "position")
        IN (position # Undefined /\ ~ TwoNumbers(position))
               => \E e \in Range(outcome.errors) :
                      e.path = "position" /\ e.message = "Position must be [x, y] array"

-----------------------------------------------------------------------------
(* Repeated validation of one document, with other requests in between      *)

HeldNodes ==
    {NodeInstance(JStr("A"), t, v, Origin, q) :
        t \in {JStr("n8n-nodes-base.if"), JStr("n8n-nodes-base.editFields"),
               JStr("n8n-nodes-base.nope")},
        v \in TypeVersionValues,
        q \in {Undefined, JObj(<< >>),
               JObj(<< KV("conditions", JObj(<< KV("combinator", JStr("xor")) >>)) >>)}}

HeldWorkflows ==
    {Stringified(<< KV("nodes", JArr(q)), KV("connections", c) >>) :
        q \in SeqsUpTo({GoodNode(JStr("A")), GoodNode(JStr("B")),
                        NodeInstance(JStr("B"), JStr("n8n-nodes-base.if"), JNum(99),
                                     Origin, JObj(<< >>))}, MaxNodes),
        c \in {JObj(<< >>), JArr(<< >>),
               JObj(<< KV("A", Outputs(<< Edge(JStr("B")) >>)) >>)}}

OtherNodeBodies ==
    {GoodNode(JStr("B")), JObj(<< >>), JNull,
     NodeInstance(JStr("B"), JStr("n8n-nodes-base.if"), JNum(99), Origin, JObj(<< >>)),
     NodeInstance(JStr("B"), JStr("n8n-nodes-base.crm"), JNum(10), Origin,
                  JObj(<< KV("operation", JStr("bogus")) >>))}

OtherWorkflowBodies ==
    {JNull, Stringified(<< KV("nodes", JArr(<< GoodNode(JStr("A")) >>)) >>),
     Stringified(<< KV("nodes", JArr(<< JNull >>)), KV("connections", JObj(<< >>)) >>)}

\* An in-process caller takes up a document
Hold(kind, doc) ==
    /\ held = NoDocument
    /\ held' = [kind |-> kind, doc |-> doc, sent |-> doc, calls |-> 0]
    /\ UNCHANGED << files, stats, reqKind, reqBody, native, outcome, status, pc, cacheSets,
                    first, again >>

\* validateNode(doc) or validateWorkflow(doc) on the held document
ValidateHeld ==
    /\ held.kind # "none"
    /\ again' = Validate(held.kind, held.doc)
    /\ first' = IF held.calls = 0 THEN again' ELSE first
    /\ held' = [held EXCEPT !.doc = ValidationCall(held.kind, held.doc).doc,
                            !.calls = IF @ = 0 THEN 1 ELSE 2]
    /\ cacheSets' = cacheSets \o ValidationCall(held.kind, held.doc).sets
    /\ UNCHANGED << files, stats, reqKind, reqBody, native, outcome, status, pc >>

\* The caller lets go of the document
Release ==
    /\ held.calls = 2
    /\ held' = NoDocument
    /\ first' = NoOutcome
    /\ again' = NoOutcome
    /\ UNCHANGED << files, stats, reqKind, reqBody, native, outcome, status, pc, cacheSets >>

NextRepeat ==
    \/ \E doc \in HeldNodes : Hold("node", doc)
    \/ \E doc \in HeldWorkflows : Hold("workflow", doc)
    \/ ValidateHeld
    \/ Release
    \/ \E body \in OtherNodeBodies : ReceiveNode(body)
    \/ \E body \in OtherWorkflowBodies : ReceiveWorkflow(body)
    \/ HandleNode
    \/ HandleWorkflow
    \/ Respond

SpecRepeat == Init /\ [][NextRepeat]_vars

-----------------------------------------------------------------------------
(* src/core/validator.ts: validateWorkflowStructure                         *)

\* enrichWithSourceInfo without a source map: the issue as built
StructureIssue(code, severity, message) ==
    [code |-> code, severity |-> severity, message |-> message]

\* One issues.push(issue) together with the list its message is pushed onto:
\* "errors", "warnings", "nodeTypeIssues" or "none"
Pushed(issue, sink) == [issue |-> issue, sink |-> sink]

PushedError(code, message) == Pushed(StructureIssue(code, "error", message), "errors")

\* node.type.includes('.') and node.type.startsWith('nodes-base.') on the
\* type strings the documents use
HasDot(type) == type \notin {"webhook", ""}
StartsWithNodesBase(type) == type = "nodes-base.if"

\* nodeRegistry.nodeTypes.get(nodeType): the installed node of that name
RegisteredNodes(type) ==
    {i \in DOMAIN InstalledNodes : type = JStr("n8n-nodes-base." \o InstalledNodes[i].name)}

\* NodeRegistry.getNodeType: "unknown", "threw" (concrete is undefined for a
\* version the versioned node does not have) or "found"
getConcrete(node, version) ==
    IF ~ node.versioned THEN "found"
    ELSE IF Nullish(version) \/ ~ Truthy(version) THEN "found"
    ELSE IF \E k \in DOMAIN node.nodeVersions :
                \/ version = JNum(node.nodeVersions[k].version)
                \/ version = JStr(ToString(node.nodeVersions[k].version))
         THEN "found" ELSE "threw"

getRegistered(registered, version) ==
    IF registered = {} THEN "unknown"
    ELSE getConcrete(InstalledNodes[CHOOSE i \in registered : TRUE], version)

getNodeType(type, version) == getRegistered(RegisteredNodes(type), version)

\* validateNodeWithN8n: `answer` is what NodeHelpers.getNodeParameters and
\* getNodeParametersIssues do with the node ("none", "throws" or "issues")
nativeIssues(found, node, answer) ==
    IF found = "threw" THEN [threw |-> TRUE, issues |-> << >>]
       ELSE [threw |-> FALSE,
             issues |->
               IF found = "unknown"
               THEN << StructureIssue("UNKNOWN_NODE_TYPE", "warning",
                           "Unknown node type: " \o Stringify(Get(node, "type"))) >>
               ELSE IF answer = "throws"
               THEN << StructureIssue("N8N_PARAMETER_VALIDATION_ERROR", "error",
                           "Could not get parameter") >>
               ELSE IF answer = "issues"
               THEN << StructureIssue("N8N_PARAMETER_ISSUE", "error",
                           "Parameter \"Value 1\" is required."),
                       StructureIssue("N8N_PARAMETER_ISSUE", "error",
                           "Parameter \"Operation\" is required.") >>
               ELSE << >>]

validateNodeWithN8n(node, answer) ==
    nativeIssues(getNodeType(Get(node, "type"), Get(node, "typeVersion")), node, answer)

\* The parameters check of the loop body and the n8n-native validation it
\* hands the node to
checkParameters(nodeName, parameters, nativeResult, pushes) ==
    LET parametersPushes ==
            IF parameters = Undefined
            THEN << PushedError("MISSING_PARAMETERS",
                        "Node \"" \o nodeName \o "\" missing required field: parameters") >>
            ELSE IF ~ TypeofObject(parameters) \/ parameters.t = "null"
            THEN << PushedError("INVALID_PARAMETERS",
                        "Node \"" \o nodeName \o "\" field 'parameters' must be an object") >>
            ELSE [k \in DOMAIN nativeResult.issues |->
                     Pushed(nativeResult.issues[k],
                            IF nativeResult.issues[k].severity = "error" THEN "errors"
                            ELSE IF nativeResult.issues[k].severity = "warning"
                                 THEN "warnings" ELSE "none")]
        delegated == parameters # Undefined /\ TypeofObject(parameters)
                     /\ parameters.t # "null"
    IN [threw |-> delegated /\ nativeResult.threw,
        pushes |-> pushes \o parametersPushes]

\* The loop body of validateWorkflowStructure for wf.nodes[i]; `at` is i
checkStructureNode(node, at, answer) ==
    IF ~ Truthy(node) \/ ~ TypeofObject(node)
    THEN [threw |-> FALSE,
          pushes |-> << PushedError("INVALID_NODE_TYPE",
                            "Node at index " \o ToString(at) \o " is not an object") >>]
    ELSE
    LET nodeName == IF Truthy(Get(node, "name"))
                    THEN Stringify(Get(node, "name")) ELSE "unnamed"
        nodeType == IF Truthy(Get(node, "type"))
                    THEN Stringify(Get(node, "type")) ELSE "unknown"
        type == Get(node, "type")
        typeVersion == Get(node, "typeVersion")
        position == Get(node, "position")
        parameters == Get(node, "parameters")
        typePushes ==
            IF ~ Truthy(type)
            THEN << PushedError("MISSING_NODE_TYPE",
                        "Node at index " \o ToString(at) \o " (" \o nodeName
                            \o ") missing required field: type") >>
            ELSE IF type.t # "str"
            THEN << PushedError("INVALID_NODE_TYPE_FORMAT",
                        "Node at index " \o ToString(at) \o " (" \o nodeName
                            \o ") field 'type' must be a string") >>
            ELSE IF ~ HasDot(type.s)
            THEN << Pushed(StructureIssue("INVALID_NODE_TYPE_FORMAT", "warning",
                        "Node \"" \o nodeName \o "\" has invalid type \"" \o type.s
                            \o "\" - must include package prefix (e.g., \"n8n-nodes-base.webhook\")"),
                        "nodeTypeIssues") >>
            ELSE IF StartsWithNodesBase(type.s)
            THEN << Pushed(StructureIssue("DEPRECATED_NODE_TYPE_PREFIX", "warning",
                        "Node \"" \o nodeName \o "\" has invalid type \"" \o type.s
                            \o "\" - should be \"n8n-" \o type.s \o "\""),
                        "nodeTypeIssues") >>
            ELSE << >>
        namePushes ==
            IF ~ Truthy(Get(node, "name"))
            THEN << Pushed(StructureIssue("MISSING_NODE_NAME", "warning",
                        "Node at index " \o ToString(at) \o " (type: " \o nodeType
                            \o ") missing 'name' field - will be auto-generated"),
                        "warnings") >>
            ELSE << >>
        versionPushes ==
            IF typeVersion = Undefined
            THEN << PushedError("MISSING_TYPE_VERSION",
                        "Node \"" \o nodeName \o "\" missing required field: typeVersion") >>
            ELSE IF typeVersion.t # "num"
            THEN << PushedError("INVALID_TYPE_VERSION",
                        "Node \"" \o nodeName \o "\" field 'typeVersion' must be a number") >>
            ELSE << >>
        positionPushes ==
            IF ~ Truthy(position)
            THEN << PushedError("MISSING_POSITION",
                        "Node \"" \o nodeName \o "\" missing required field: position") >>
            ELSE IF ~ IsArray(position) \/ Len(position.a) # 2
            THEN << PushedError("INVALID_POSITION",
                        "Node \"" \o nodeName
                            \o "\" field 'position' must be an array of [x, y]") >>
            ELSE << >>
    IN checkParameters(nodeName, parameters, validateNodeWithN8n(node, answer),
                       typePushes \o namePushes \o versionPushes \o positionPushes)

StructureThrew ==
    [threw |-> TRUE, valid |-> FALSE, errors |-> << >>, warnings |-> << >>,
     issues |-> << >>, nodeTypeIssues |-> << >>]

Messages(pushes, sink) ==
    LET kept == SelectSeq(pushes, LAMBDA p : p.sink = sink)
    IN [k \in DOMAIN kept |-> kept[k].issue.message]

\* return { valid: errors.length === 0, errors, warnings, issues, nodeTypeIssues }
\* (an empty nodeTypeIssues is returned as undefined)
StructureResult(pushes) ==
    [threw |-> FALSE,
     valid |-> Messages(pushes, "errors") = << >>,
     errors |-> Messages(pushes, "errors"),
     warnings |-> Messages(pushes, "warnings"),
     issues |-> [k \in DOMAIN pushes |-> pushes[k].issue],
     nodeTypeIssues |-> Messages(pushes, "nodeTypeIssues")]

\* The result once the loop over wf.nodes is done, or the exception of the
\* iteration that threw
StructureChecked(pushes, checked) ==
    IF \E i \in DOMAIN checked : checked[i].threw
    THEN StructureThrew
    ELSE StructureResult(pushes \o Flatten([i \in DOMAIN checked |-> checked[i].pushes]))

validateWorkflowStructure(data, answer) ==
    IF ~ TypeofObject(data) \/ data.t = "null"
    THEN StructureResult(<< PushedError("INVALID_JSON_TYPE",
                                        "Workflow must be a JSON object") >>)
    ELSE
    LET nodes == Get(data, "nodes")
        connections == Get(data, "connections")
        nodesPushes ==
            IF nodes = Undefined
            THEN << PushedError("MISSING_PROPERTY", "Missing required property: nodes") >>
            ELSE IF ~ IsArray(nodes)
            THEN << PushedError("INVALID_TYPE", "Property \"nodes\" must be an array") >>
            ELSE << >>
        connectionsPushes ==
            IF connections = Undefined
            THEN << PushedError("MISSING_PROPERTY",
                                "Missing required property: connections") >>
            ELSE IF ~ TypeofObject(connections) \/ connections.t = "null"
            THEN << PushedError("INVALID_TYPE",
                                "Property \"connections\" must be an object") >>
            ELSE IF IsArray(connections)
            THEN << PushedError("INVALID_TYPE",
                                "Property \"connections\" must be an object, not an array") >>
            ELSE << >>
    IN StructureChecked(nodesPushes \o connectionsPushes,
                        IF IsArray(nodes)
                        THEN [i \in DOMAIN nodes.a |->
                                 checkStructureNode(nodes.a[i], i - 1, answer)]
                        ELSE << >>)

StructureNode(name, type, typeVersion, position, parameters) ==
    NodeInstance(name, type, typeVersion, position, parameters)

StructureNodeEntries ==
    {JNull, JStr("node"),
     GoodNode(JStr("A")),
     GoodNode(Undefined),
     StructureNode(JStr("A"), JStr("webhook"), JNum(10), Origin, JObj(<< >>)),
     StructureNode(JStr("B"), JStr("nodes-base.if"), JNum(22), Origin, JObj(<< >>)),
     StructureNode(JStr("B"), JStr("n8n-nodes-base.nope"), JNum(10), Origin, JObj(<< >>)),
     StructureNode(JStr("A"), JNum(7), JStr("2"), JArr(<< JNum(0) >>), JNull),
     StructureNode(JStr("B"), JStr("n8n-nodes-base.if"), JNum(99), Origin, JObj(<< >>)),
     StructureNode(JStr("B"), JStr("n8n-nodes-base.crm"), Undefined, Undefined, Undefined)}

StructureBodies ==
    {JNull, JNum(5)}
    \cup {Stringified(<< KV("nodes", n), KV("connections", c) >>) :
              n \in {Undefined, JObj(<< >>)}
                    \cup {JArr(q) : q \in SeqsUpTo(StructureNodeEntries, MaxNodes)},
              c \in {Undefined, JNull, JArr(<< >>), JObj(<< >>)}}

NativeAnswers == {"none", "throws", "issues"}

\* validateWorkflowStructure(data) is called on a parsed document
ReceiveStructure(data, answer) ==
    /\ pc = "idle"
    /\ reqKind' = "structure"
    /\ reqBody' = data
    /\ native' = answer
    /\ pc' = "received"
    /\ UNCHANGED << files, stats, outcome, status, cacheSets, held, first, again >>

HandleStructure ==
    /\ pc = "received" /\ reqKind = "structure"
    /\ outcome' = validateWorkflowStructure(reqBody, native)
    /\ pc' = "responded"
    /\ UNCHANGED << files, stats, reqKind, reqBody, native, status, cacheSets, held, first, again >>

NextStructure ==
    \/ \E data \in StructureBodies, answer \in NativeAnswers :
           ReceiveStructure(data, answer)
    \/ HandleStructure
    \/ Respond

SpecStructure == Init /\ [][NextStructure]_vars

StructureDone == pc = "responded" /\ reqKind = "structure" /\ ~ outcome.threw

MessagesOfSeverity(severity) ==
    LET kept == SelectSeq(outcome.issues, LAMBDA issue : issue.severity = severity)
    IN [k \in DOMAIN kept |-> kept[k].message]

\* C15: in every result of validateWorkflowStructure, `errors` is the
\* sequence of messages of the issues of severity error and `warnings` that of
\* the issues of severity warning, in issue order, and `valid` holds iff no
\* issue has severity error.
C15_ProjectionsOfIssues ==
    StructureDone =>
        /\ outcome.errors = MessagesOfSeverity("error")
        /\ outcome.warnings = MessagesOfSeverity("warning")
        /\ outcome.valid <=> (MessagesOfSeverity("error") = << >>)

-----------------------------------------------------------------------------
(* The validation rules extractor (extractSingleNodeValidation and the      *)
(* methods it calls)                                                        *)

\* buildValidationRule; constraints and dependsOn are left out
buildValidationRule(prop) ==
    Stringified(<<
        KV("field", Get(prop, "name")),
        KV("type", IF Truthy(Get(prop, "type")) THEN Get(prop, "type") ELSE JStr("string")),
        KV("required", JBool(\/ Get(prop, "required") = JBool(TRUE)
                             \/ (/\ Get(prop, "default") = Undefined
                                 /\ ~ Truthy(Get(prop, "displayOptions"))))),
        KV("displayOptions", Get(prop, "displayOptions")) >>)

extractPropertyValidationRules(properties) ==
    LET named == SelectSeq(properties, LAMBDA prop : Truthy(Get(prop, "name")))
    IN [i \in DOMAIN named |-> buildValidationRule(named[i])]

\* if (rule.required && !rule.displayOptions) requiredParameters.push(rule.field)
InRequiredParameters(rule) ==
    Get(rule, "required") = JBool(TRUE) /\ ~ Truthy(Get(rule, "displayOptions"))

FieldsOf(rules) == [i \in DOMAIN rules |-> Get(rules[i], "field")]

\* properties.find(p => p.name === name)
FindNamed(properties, name) ==
    LET found == {i \in DOMAIN properties : Get(properties[i], "name") = JStr(name)}
    IN IF found = {} THEN Undefined
       ELSE properties[CHOOSE i \in found : \A j \in found : i <= j]

\* displayOptions?.show?.[key]?.includes(value)
ShowIncludes(displayOptions, key, value) ==
    LET listed == Get(Get(displayOptions, "show"), key)
    IN IsArray(listed) /\ Includes(listed.a, value)

\* The options of operationProp that apply to `resource`
operationsOf(operationProp, resource) ==
    LET options == IF Truthy(Get(operationProp, "options"))
                   THEN Get(operationProp, "options").a ELSE << >>
        applies(op) ==
            LET displayOptions == IF Truthy(Get(op, "displayOptions"))
                                  THEN Get(op, "displayOptions")
                                  ELSE Get(operationProp, "displayOptions")
            IN ShowIncludes(displayOptions, "resource", resource)
               \/ ~ Truthy(displayOptions)
    IN SelectSeq(options, applies)

fieldsForOp(properties, resource, operation) ==
    LET shown == SelectSeq(properties, LAMBDA p :
                     /\ ShowIncludes(Get(p, "displayOptions"), "resource", resource)
                     /\ ShowIncludes(Get(p, "displayOptions"), "operation", operation))
    IN [i \in DOMAIN shown |-> Get(shown[i], "name")]

extractResourceOperations(properties) ==
    LET resourceProp == FindNamed(properties, "resource")
        operationProp == FindNamed(properties, "operation")
        resources == IF Truthy(Get(resourceProp, "options"))
                     THEN [i \in DOMAIN Get(resourceProp, "options").a |->
                              Get(Get(resourceProp, "options").a[i], "value")]
                     ELSE << >>
        entry(resource) ==
            LET ops == operationsOf(operationProp, resource)
                withFields == SelectSeq(ops, LAMBDA op :
                                 fieldsForOp(properties, resource, Get(op, "value")) # << >>)
            IN JObj(<<
                 KV("operations", JArr([i \in DOMAIN ops |-> Get(ops[i], "value")])),
                 KV("fieldsPerOperation",
                    JObj(MapSetAll(<< >>,
                         [i \in DOMAIN withFields |->
                             KV(Stringify(Get(withFields[i], "value")),
                                JArr(fieldsForOp(properties, resource,
                                                 Get(withFields[i], "value"))))]))) >>)
        recorded == SelectSeq(resources, LAMBDA resource :
                        operationsOf(operationProp, resource) # << >>)
    IN IF resourceProp = Undefined \/ operationProp = Undefined THEN JObj(<< >>)
       ELSE JObj(MapSetAll(<< >>,
                [i \in DOMAIN recorded |->
                    KV(Stringify(recorded[i]), entry(recorded[i]))]))

\* The version-keyed map holds the resolved default version
HasDefaultVersion(node) ==
    /\ node.nodeVersions # << >>
    /\ DefVer(node).t = "num"
    /\ \E k \in DOMAIN node.nodeVersions : node.nodeVersions[k].version = DefVer(node).n

\* vt.getLatestVersion() or vt.getNodeType(defaultVersion).description throws
\* a TypeError, which the caller's try/catch turns into skipping the node
ExtractionThrows(node) == node.versioned /\ ~ HasDefaultVersion(node)

Skipped(by) == [by |-> by, skipped |-> TRUE]

extractSingleNodeValidation(node) ==
    IF ExtractionThrows(node) \/ Desc(node) = Undefined
    THEN Skipped("extractSingleNodeValidation")
    ELSE LET validationRules == extractPropertyValidationRules(DescProperties(Desc(node)))
         IN [by |-> "extractSingleNodeValidation",
             skipped |-> FALSE,
             defaultVersion |-> DefVer(node),
             computedDefaults |-> computedDefaults(node),
             requiredParameters |->
                 FieldsOf(SelectSeq(validationRules, InRequiredParameters)),
             optionalParameters |->
                 FieldsOf(SelectSeq(validationRules,
                                    LAMBDA rule : ~ InRequiredParameters(rule))),
             validationRules |-> validationRules,
             resourceOperations |->
                 extractResourceOperations(DescProperties(Desc(node)))]

\* scripts/extract-schemas.ts, getAvailableVersions: sorted in both branches
getAvailableVersions(node) ==
    LET listed == IF node.nodeVersions # << >>
                  THEN {node.nodeVersions[i].version : i \in DOMAIN node.nodeVersions}
                  ELSE IF ~ Truthy(Get(node.description, "version")) THEN {}
                  ELSE IF IsArray(Get(node.description, "version"))
                  THEN {Get(node.description, "version").a[i].n :
                            i \in DOMAIN Get(node.description, "version").a}
                  ELSE {Get(node.description, "version").n}
    IN JArr([i \in DOMAIN SortAsc(listed) |-> JNum(SortAsc(listed)[i])])

\* scripts/extract-schemas.ts: try { computedDefaults = getNodeParameters(...)
\* || {} } catch { computedDefaults = description.defaults || {} }
staticDefaults(node, desc) ==
    IF DefaultsThrow(node)
    THEN (IF Truthy(Get(desc, "defaults")) THEN Get(desc, "defaults") ELSE JObj(<< >>))
    ELSE computedDefaults(node)

\* scripts/extract-schemas.ts, extractSingleNodeSchema; the cleaned
\* properties and the required/optional analysis are left out
extractSingleNodeSchema(node) ==
    IF ExtractionThrows(node) \/ Desc(node) = Undefined
    THEN Skipped("extractSingleNodeSchema")
    ELSE [by |-> "extractSingleNodeSchema", skipped |-> FALSE,
          schema |-> Stringified(<<
              KV("name", Get(Desc(node), "name")),
              KV("version", Get(Desc(node), "version")),
              KV("defaults", staticDefaults(node, Desc(node))),
              KV("hasVersions", JBool(node.versioned)),
              KV("availableVersions",
                 IF node.versioned THEN getAvailableVersions(node) ELSE Undefined),
              KV("defaultVersion", DefVer(node)) >>)]

\* The body of the loop of Extractor.extractNodes for one node
extractNode(node) ==
    IF ExtractionThrows(node) \/ Desc(node) = Undefined
    THEN Skipped("extractNodes")
    ELSE [by |-> "extractNodes", skipped |-> FALSE,
          schema |-> NodeSchema(node), validation |-> NodeValidation(node)]
-----------------------------------------------------------------------------
(* Extraction runs: the node types handed to the extractors                 *)

MaxProperties == 2
MaxVersions == 3

Show2(key1, values1, key2, values2) ==
    JObj(<< KV("show", JObj(<< KV(key1, JArr(values1)), KV(key2, JArr(values2)) >>)) >>)

\* Descriptors named x or y with every combination of default, required and
\* displayOptions present or absent
PlainDescriptors ==
    {Descriptor("x", "string", d, r, Undefined, o) :
        d \in {Undefined, JStr("")},
        r \in {Undefined, JBool(TRUE), JBool(FALSE)},
        o \in {Undefined, ShowWhen("mode", << JStr("raw") >>)}}
    \cup {Descriptor("y", "string", d, Undefined, Undefined, o) :
        d \in {Undefined, JStr("")},
        o \in {Undefined, ShowWhen("mode", << JStr("raw") >>)}}

ResourceDescriptor ==
    Descriptor("resource", "options", JStr("contact"), Undefined,
               JArr(<< Opt("Contact", "contact"), Opt("Deal", "deal") >>), Undefined)

OperationDescriptors ==
    {Descriptor("operation", "options", JStr("create"), Undefined,
                JArr(<< Opt("Create", "create"), Opt("Get", "get") >>),
                ShowWhen("resource", << JStr("contact") >>)),
     Descriptor("operation", "options", JStr("create"), Undefined,
                JArr(<< Opt("Create", "create"), Opt("Close", "close") >>),
                ShowWhen("resource", << JStr("deal") >>)),
     Descriptor("operation", "options", JStr("list"), Undefined,
                JArr(<< Opt("List", "list") >>), Undefined)}

\* Fields shown for a resource and an operation, for a resource only and for
\* an operation only
FieldDescriptors ==
    {<< >>,
     << Descriptor("email", "string", JStr(""), Undefined, Undefined,
                   Show2("resource", << JStr("contact") >>, "operation", << JStr("get") >>)) >>,
     << Descriptor("dealName", "string", JStr(""), Undefined, Undefined,
                   ShowWhen("resource", << JStr("deal") >>)),
        Descriptor("limit", "number", JNum(50), Undefined, Undefined,
                   ShowWhen("operation", << JStr("create") >>)) >>,
     << Descriptor("email", "string", JStr(""), Undefined, Undefined,
                   Show2("resource", << JStr("contact") >>, "operation", << JStr("get") >>)),
        Descriptor("reason", "string", JStr(""), Undefined, Undefined,
                   Show2("resource", << JStr("deal") >>, "operation", << JStr("close") >>)),
        Descriptor("limit", "number", JNum(50), Undefined, Undefined,
                   ShowWhen("operation", << JStr("create") >>)) >>}

PropertyLists ==
    SeqsUpTo(PlainDescriptors, MaxProperties)
    \cup {<< ResourceDescriptor >> \o ops \o fields :
              ops \in SeqsUpTo(OperationDescriptors, MaxProperties),
              fields \in FieldDescriptors}

UnversionedNode(version, properties) ==
    [name |-> "probe", versioned |-> FALSE,
     description |-> Description("probe", version, properties),
     nodeVersions |-> << >>, defaults |-> JObj(<< >>)]

VersionNumbers == {10, 20, 21, 30}

\* Sequences of distinct version numbers: the insertion order of the map
VersionOrders ==
    {q \in SeqsUpTo(VersionNumbers, MaxVersions) :
        q # << >> /\ \A i, j \in DOMAIN q : i # j => q[i] # q[j]}

\* Each version of a versioned node declares one property, named after it
VersionedNode(order, defaultVersion, version) ==
    [name |-> "probe", versioned |-> TRUE,
     description |-> Stringified(<< KV("name", JStr("probe")),
                                    KV("defaultVersion", defaultVersion),
                                    KV("version", version) >>),
     nodeVersions |-> [k \in DOMAIN order |->
                          [version |-> order[k],
                           description |->
                               Description("probe", JNum(order[k]),
                                   << Descriptor("v" \o ToString(order[k]), "string",
                                                 JStr(""), Undefined, Undefined,
                                                 Undefined) >>)]],
     defaults |-> JObj(<< >>)]

\* A node whose default evaluation throws, with and without the static
\* `defaults` of its description
ThrowingNode(defaults) ==
    [name |-> "probe", versioned |-> FALSE,
     description |-> Stringified(<< KV("name", JStr("probe")), KV("version", JNum(10)),
                                    KV("properties", JArr(<< >>)),
                                    KV("defaults", defaults) >>),
     nodeVersions |-> << >>, defaults |-> Throws]

NodeTypes ==
    {InstalledNodes[i] : i \in DOMAIN InstalledNodes}
    \cup {ThrowingNode(defaults) :
              defaults \in {Undefined, JObj(<< KV("name", JStr("Probe")) >>)}}
    \cup {UnversionedNode(JNum(10), properties) : properties \in PropertyLists}
    \cup {UnversionedNode(version, << >>) :
              version \in {JArr(<< JNum(10), JNum(20) >>), JArr(<< JNum(20), JNum(10) >>)}}
    \cup {VersionedNode(order, defaultVersion, Undefined) :
              order \in VersionOrders,
              defaultVersion \in {Undefined, JNum(20), JNum(21)}}
    \cup {VersionedNode(<< >>, JNum(20), version) :
              version \in {JNum(20), JArr(<< JNum(10), JNum(20) >>),
                           JArr(<< JNum(20), JNum(10) >>)}}

\* The loop of an extractor reaches a loaded node
ReceiveNodeType(node) ==
    /\ pc = "idle"
    /\ reqKind' = "extract"
    /\ reqBody' = node
    /\ pc' = "received"
    /\ UNCHANGED << files, stats, native, outcome, status, cacheSets, held, first, again >>

\* extract.ts: Extractor.extractNodes
ExtractNode ==
    /\ pc = "received" /\ reqKind = "extract"
    /\ outcome' = extractNode(reqBody)
    /\ pc' = "responded"
    /\ UNCHANGED << files, stats, reqKind, reqBody, native, status, cacheSets, held, first, again >>

\* The validation rules extractor: extractNodeValidationSchemas
ExtractValidation ==
    /\ pc = "received" /\ reqKind = "extract"
    /\ outcome' = extractSingleNodeValidation(reqBody)
    /\ pc' = "responded"
    /\ UNCHANGED << files, stats, reqKind, reqBody, native, status, cacheSets, held, first, again >>

\* scripts/extract-schemas.ts: extractNodeSchemas
ExtractSchema ==
    /\ pc = "received" /\ reqKind = "extract"
    /\ outcome' = extractSingleNodeSchema(reqBody)
    /\ pc' = "responded"
    /\ UNCHANGED << files, stats, reqKind, reqBody, native, status, cacheSets, held,
                    first, again >>

\* extract.ts: Extractor.getVersions(node)
GetVersions ==
    /\ pc = "received" /\ reqKind = "extract"
    /\ outcome' = [by |-> "getVersions", skipped |-> FALSE,
                   versions |-> getVersions(reqBody)]
    /\ pc' = "responded"
    /\ UNCHANGED << files, stats, reqKind, reqBody, native, status, cacheSets, held, first, again >>

NextExtract ==
    \/ \E node \in NodeTypes : ReceiveNodeType(node)
    \/ ExtractNode
    \/ ExtractValidation
    \/ ExtractSchema
    \/ GetVersions
    \/ Respond

SpecExtract == Init /\ [][NextExtract]_vars
-----------------------------------------------------------------------------
(* Extraction: required and optional parameters, rules, resources and       *)
(* operations, versions                                                     *)

ExtractDone == pc = "responded" /\ reqKind = "extract"

ValidationExtracted ==
    ExtractDone /\ outcome.by = "extractSingleNodeValidation" /\ ~ outcome.skipped

NodeExtracted == ExtractDone /\ outcome.by = "extractNodes" /\ ~ outcome.skipped

VersionsListed == ExtractDone /\ outcome.by = "getVersions"

\* The descriptor list the extractors read for the node handed in
Declared == DescProperties(Desc(reqBody))

NamedDeclared == SelectSeq(Declared, LAMBDA prop : Truthy(Get(prop, "name")))

\* C17: for every node schema the builder produces, no field name is in both
\* requiredParameters and optionalParameters, and every descriptor name that
\* has no displayOptions is in one of the two lists, also when the list
\* declares a name more than once.
C17_RequiredOptionalPartition ==
    ValidationExtracted =>
        /\ Range(outcome.requiredParameters) \cap Range(outcome.optionalParameters) = {}
        /\ \A i \in DOMAIN NamedDeclared :
               ~ Truthy(Get(NamedDeclared[i], "displayOptions"))
               => Get(NamedDeclared[i], "name")
                      \in Range(outcome.requiredParameters)
                          \cup Range(outcome.optionalParameters)

\* The required flag the descriptor asks for: its explicit value, else
\* "no default and no displayOptions"
RequiredOf(prop) ==
    IF Get(prop, "required") = JBool(TRUE) THEN TRUE
    ELSE IF Get(prop, "required") = JBool(FALSE) THEN FALSE
    ELSE Get(prop, "default") = Undefined /\ ~ Truthy(Get(prop, "displayOptions"))

\* The rules built for the node handed in, by either builder
BuiltRules ==
    IF ValidationExtracted THEN outcome.validationRules
    ELSE IF NodeExtracted THEN Get(outcome.validation, "rules").a
    ELSE << >>

\* C18: a descriptor's explicit `required` overrides the derived value: the
\* rule of a descriptor with required: true is required, the rule of one with
\* required: false is not, and only with `required` absent is the rule
\* required iff the descriptor has no default and no displayOptions.
C18_ExplicitRequiredOverrides ==
    \A i \in DOMAIN BuiltRules :
        Get(BuiltRules[i], "required") = JBool(RequiredOf(NamedDeclared[i]))

\* The descriptors named `operation` and the resource values enumerated
OperationProps ==
    SelectSeq(Declared, LAMBDA prop : Get(prop, "name") = JStr("operation"))

ResourceValues ==
    LET resourceProp == FindNamed(Declared, "resource")
    IN IF Truthy(Get(resourceProp, "options"))
       THEN {Get(option, "value") : option \in Range(Get(resourceProp, "options").a)}
       ELSE {}

\* The operation values offered for resource r by all `operation` descriptors
OfferedFor(r) ==
    UNION {{Get(option, "value") : option \in Range(Get(prop, "options").a)} :
           prop \in {q \in Range(OperationProps) :
                        \/ ~ Truthy(Get(q, "displayOptions"))
                        \/ ShowIncludes(Get(q, "displayOptions"), "resource", r)}}

\* The names of the descriptors shown for resource r and operation op
FieldsFor(r, op) ==
    {Get(prop, "name") : prop \in {q \in Range(Declared) :
        /\ ShowIncludes(Get(q, "displayOptions"), "resource", r)
        /\ ShowIncludes(Get(q, "displayOptions"), "operation", op)}}

RecordedOperations(r) ==
    LET entry == Get(outcome.resourceOperations, Stringify(r))
    IN IF entry = Undefined THEN {} ELSE Range(Get(entry, "operations").a)

RecordedFields(r, op) ==
    LET fields == Get(Get(Get(outcome.resourceOperations, Stringify(r)),
                          "fieldsPerOperation"), Stringify(op))
    IN IF fields = Undefined THEN {} ELSE Range(fields.a)

\* C19: extractResourceOperations maps every enumerated resource value r to
\* exactly the operation values offered by the descriptors named `operation`
\* whose show.resource includes r or that have no displayOptions, every such
\* descriptor of the list counted; and the field set recorded for (r, op) is
\* exactly the names of the descriptors whose show lists r under `resource`
\* and op under `operation`.
C19_ResourceOperationsComplete ==
    (ValidationExtracted /\ OperationProps # << >>) =>
        \A r \in ResourceValues :
            /\ RecordedOperations(r) = OfferedFor(r)
            /\ \A op \in RecordedOperations(r) : RecordedFields(r, op) = FieldsFor(r, op)

Ascending(versions) ==
    \A i, j \in DOMAIN versions : i < j => versions[i].n < versions[j].n

\* The version numbers of the node handed in: the keys of the version-keyed
\* map, else the `version` number or array of the description
VersionsOf(node) ==
    IF node.nodeVersions # << >>
    THEN {JNum(node.nodeVersions[k].version) : k \in DOMAIN node.nodeVersions}
    ELSE LET v == Get(node.description, "version")
         IN IF IsArray(v) THEN Range(v.a) ELSE {v}

\* The descriptor list the version-keyed map holds for `version`
PropertiesOfVersion(node, version) ==
    LET k == CHOOSE k \in DOMAIN node.nodeVersions :
                 node.nodeVersions[k].version = version
    IN DescProperties(node.nodeVersions[k].description)

Highest(versions) == CHOOSE v \in versions : \A w \in versions : w.n <= v.n

-----------------------------------------------------------------------------
(* multiOptions fields                                                      *)

\* C29: for a multiOptions-typed field with enum values, validateNode reports
\* an enum error exactly when the submitted array contains an element that
\* is not in the enum; an array of enum members produces no enum error.
C29_MultiOptionsElementwise ==
    (NodeDone /\ BodyKnown /\ BodyParams.t = "obj") =>
        \A i \in DOMAIN BodyRules :
            LET rule == BodyRules[i]
                field == Get(rule, "field").s
                value == Get(BodyParams, field)
            IN (/\ Get(rule, "type") = JStr("multiOptions")
                /\ Truthy(Get(rule, "enumValues"))
                /\ IsArray(value))
               => ((\E e \in Range(outcome.errors) : EnumError(e, field))
                   <=> \E k \in DOMAIN value.a :
                           ~ Includes(Get(rule, "enumValues").a, value.a[k]))
-----------------------------------------------------------------------------
(* Version mismatch in validateWorkflowStructure                            *)

\* The node names a known versioned node type and carries a numeric
\* typeVersion that is not one of the versions of that type
VersionMismatch(node) ==
    /\ node.t = "obj"
    /\ Get(node, "typeVersion").t = "num"
    /\ \E i \in DOMAIN InstalledNodes :
          /\ Get(node, "type") = JStr("n8n-nodes-base." \o InstalledNodes[i].name)
          /\ InstalledNodes[i].versioned
          /\ \A k \in DOMAIN InstalledNodes[i].nodeVersions :
                InstalledNodes[i].nodeVersions[k].version # Get(node, "typeVersion").n

\* C28: validateWorkflowStructure returns a result and never throws for a
\* node whose type is a known versioned node type and whose numeric
\* typeVersion is not one of that type's versions; the mismatch becomes an
\* accumulated issue and the nodes after it are still validated.
C28_VersionMismatchAccumulated ==
    (/\ pc = "responded" /\ reqKind = "structure"
     /\ IsArray(Get(reqBody, "nodes"))
     /\ \E i \in DOMAIN Get(reqBody, "nodes").a :
            VersionMismatch(Get(reqBody, "nodes").a[i]))
    => /\ ~ outcome.threw
       /\ outcome.issues # << >>
-----------------------------------------------------------------------------
(* fixer.ts: the experimental fixes, which change the workflow in place     *)

\* The named own properties of an object; an array that was given named
\* properties carries them in a field `o` next to its elements
OwnProps(x) ==
    IF x.t = "obj" THEN x.o
    ELSE IF x.t = "arr" /\ "o" \in DOMAIN x THEN x.o
    ELSE << >>

\* key in x, for the keys the fixes test (none is inherited)
In(key, x) == \E i \in DOMAIN OwnProps(x) : OwnProps(x)[i].k = key

\* Array.prototype.values and the like: a function, truthy and no array
JFunction == [t |-> "function"]

\* x[key] for x neither null nor undefined
Prop(x, key) ==
    IF In(key, x)
    THEN OwnProps(x)[CHOOSE i \in DOMAIN OwnProps(x) : OwnProps(x)[i].k = key].v
    ELSE IF x.t = "arr" /\ key = "values" THEN JFunction
    ELSE Undefined

\* x[key] = value
SetProp(x, key, value) ==
    IF x.t = "obj" THEN JObj(MapSet(x.o, key, value))
    ELSE [t |-> "arr", a |-> x.a, o |-> MapSet(OwnProps(x), key, value)]

\* delete x[key]
DeleteProp(x, key) ==
    IF x.t = "obj" THEN JObj(SelectSeq(x.o, LAMBDA kv : kv.k # key))
    ELSE IF x.t = "arr" /\ "o" \in DOMAIN x
    THEN [t |-> "arr", a |-> x.a, o |-> SelectSeq(x.o, LAMBDA kv : kv.k # key)]
    ELSE x

\* Object.keys(x).length
KeyCount(x) == Len(ObjectEntries(x)) + (IF x.t = "arr" THEN Len(OwnProps(x)) ELSE 0)

RECURSIVE SumFixed(_)
SumFixed(results) ==
    IF results = << >> THEN 0 ELSE Head(results).fixed + SumFixed(Tail(results))

FixResult(fixed, warnings) == [fixed |-> fixed, warnings |-> warnings]

\* What one iteration of `for (const node of workflow.nodes)` leaves
Kept(node) == [node |-> node, fixed |-> 0, warnings |-> << >>]

Changed(node, fixed, warning) ==
    [node |-> node, fixed |-> fixed, warnings |-> [k \in 1 .. fixed |-> warning]]

\* The workflow and the FixResult once the loop is over
Looped(workflow, perNode) ==
    [workflow |-> IF perNode = << >> THEN workflow
                  ELSE SetProp(workflow, "nodes",
                               JArr([i \in DOMAIN perNode |-> perNode[i].node])),
     result |-> FixResult(SumFixed(perNode),
                          Flatten([i \in DOMAIN perNode |-> perNode[i].warnings]))]

\* if (!Array.isArray(workflow.nodes)) return { fixed, warnings }
NodesOf(workflow) ==
    IF IsArray(Prop(workflow, "nodes")) THEN Prop(workflow, "nodes").a ELSE << >>

IsConditional(node) ==
    Prop(node, "type") \in {JStr("n8n-nodes-base.if"), JStr("n8n-nodes-base.switch")}

emptyOptionsAtRoot(parameters) ==
    /\ Truthy(parameters) /\ TypeofObject(parameters)
    /\ In("options", parameters)
    /\ TypeofObject(Prop(parameters, "options"))
    /\ Prop(parameters, "options").t # "null"
    /\ KeyCount(Prop(parameters, "options")) = 0

\* A fix that empties the options instead of deleting the key
resetOptionsNode(node) ==
    IF ~ Truthy(node) \/ ~ TypeofObject(node) THEN Kept(node)
    ELSE IF IsConditional(node) /\ emptyOptionsAtRoot(Prop(node, "parameters"))
    THEN Changed(SetProp(node, "parameters",
                         SetProp(DeleteProp(Prop(node, "parameters"), "options"),
                                 "options", JObj(<< >>))),
                 1,
                 "Fixed node \"" \o Stringify(Prop(node, "name"))
                     \o "\": Removed invalid empty 'options' field from parameters root")
    ELSE Kept(node)

fixEmptyOptionsNode(node) ==
    IF ~ Truthy(node) \/ ~ TypeofObject(node) THEN Kept(node)
    ELSE IF IsConditional(node) /\ emptyOptionsAtRoot(Prop(node, "parameters"))
    THEN Changed(SetProp(node, "parameters", DeleteProp(Prop(node, "parameters"), "options")),
                 1,
                 "Fixed node \"" \o Stringify(Prop(node, "name"))
                     \o "\": Removed invalid empty 'options' field from parameters root")
    ELSE Kept(node)

fixEmptyOptionsOnConditionalNodes(workflow) ==
    Looped(workflow, [i \in DOMAIN NodesOf(workflow) |->
                         fixEmptyOptionsNode(NodesOf(workflow)[i])])

\* Only apply to Switch v3+
IsSwitchV3(node) ==
    /\ Prop(node, "type") = JStr("n8n-nodes-base.switch")
    /\ Prop(node, "typeVersion").t = "num"
    /\ Prop(node, "typeVersion").n >= 30

\* opts[key] = value whether or not the key is there
overwriteDefault(opts, key, value) == SetProp(opts, key, value)

\* if (!(key in opts)) opts[key] = value
withDefault(opts, key, value) ==
    IF In(key, opts) THEN opts ELSE SetProp(opts, key, value)

\* The options object of a rule's conditions with the required keys ensured
completeOptions(opts, typeVersion) ==
    LET three == withDefault(withDefault(withDefault(opts, "caseSensitive", JBool(TRUE)),
                                         "leftValue", JStr("")),
                             "typeValidation", JStr("strict"))
    IN IF typeVersion >= 32 THEN withDefault(three, "version", JNum(2)) ELSE three

\* let opts = conditions.options; if (!opts || typeof opts !== 'object') opts = {}
optionsOf(conditions) ==
    IF ~ Truthy(Prop(conditions, "options")) \/ ~ TypeofObject(Prop(conditions, "options"))
    THEN JObj(<< >>)
    ELSE Prop(conditions, "options")

\* needsFix
needsFix(conditions, typeVersion) ==
    completeOptions(optionsOf(conditions), typeVersion) # Prop(conditions, "options")

\* One iteration of `for (const rule of values)`: the rule it leaves
fixRule(rule, typeVersion) ==
    IF ~ Truthy(rule) \/ ~ TypeofObject(rule) THEN rule
    ELSE IF ~ Truthy(Prop(rule, "conditions")) \/ ~ TypeofObject(Prop(rule, "conditions"))
    THEN rule
    ELSE IF needsFix(Prop(rule, "conditions"), typeVersion)
    THEN SetProp(rule, "conditions",
                 SetProp(Prop(rule, "conditions"), "options",
                         completeOptions(optionsOf(Prop(rule, "conditions")), typeVersion)))
    ELSE rule

\* The rules the loop over parameters.rules.values reaches
RuleValues(node) ==
    LET parameters == Prop(node, "parameters")
    IN IF ~ Truthy(node) \/ ~ TypeofObject(node) THEN << >>
       ELSE IF ~ IsSwitchV3(node) \/ ~ Truthy(parameters) THEN << >>
       ELSE IF ~ Truthy(Prop(parameters, "rules"))
               \/ ~ TypeofObject(Prop(parameters, "rules")) THEN << >>
       ELSE IF ~ IsArray(Prop(Prop(parameters, "rules"), "values")) THEN << >>
       ELSE Prop(Prop(parameters, "rules"), "values").a

fixRulesNode(node, values) ==
    LET fixedRules == [k \in DOMAIN values |->
                          fixRule(values[k], Prop(node, "typeVersion").n)]
        count == Cardinality({k \in DOMAIN values : fixedRules[k] # values[k]})
    IN IF count = 0 THEN Kept(node)
       ELSE Changed(SetProp(node, "parameters",
                        SetProp(Prop(node, "parameters"), "rules",
                            SetProp(Prop(Prop(node, "parameters"), "rules"), "values",
                                    JArr(fixedRules)))),
                    count,
                    "Fixed node \"" \o Stringify(Prop(node, "name"))
                        \o "\": Added missing 'options' to rule conditions")

fixSwitchV3RuleConditionsOptions(workflow) ==
    Looped(workflow, [i \in DOMAIN NodesOf(workflow) |->
                         fixRulesNode(NodesOf(workflow)[i],
                                      RuleValues(NodesOf(workflow)[i]))])

\* A move that leaves the key in rules
copyFallbackOutput(parameters) ==
    LET ensured == IF ~ Truthy(Prop(parameters, "options"))
                      \/ ~ TypeofObject(Prop(parameters, "options"))
                   THEN SetProp(parameters, "options", JObj(<< >>))
                   ELSE parameters
    IN SetProp(ensured, "options",
               SetProp(Prop(ensured, "options"), "fallbackOutput",
                       Prop(Prop(parameters, "rules"), "fallbackOutput")))

\* if ('fallbackOutput' in rules) { delete it; ensure parameters.options is
\* an object; parameters.options.fallbackOutput = fallbackValue }
moveFallbackOutput(parameters) ==
    LET moved == SetProp(parameters, "rules",
                         DeleteProp(Prop(parameters, "rules"), "fallbackOutput"))
        ensured == IF ~ Truthy(Prop(moved, "options"))
                      \/ ~ TypeofObject(Prop(moved, "options"))
                   THEN SetProp(moved, "options", JObj(<< >>))
                   ELSE moved
    IN SetProp(ensured, "options",
               SetProp(Prop(ensured, "options"), "fallbackOutput",
                       Prop(Prop(parameters, "rules"), "fallbackOutput")))

fixFallbackNode(node) ==
    IF ~ Truthy(node) \/ ~ TypeofObject(node) THEN Kept(node)
    ELSE IF ~ IsSwitchV3(node) \/ ~ Truthy(Prop(node, "parameters")) THEN Kept(node)
    ELSE IF ~ Truthy(Prop(Prop(node, "parameters"), "rules"))
            \/ ~ TypeofObject(Prop(Prop(node, "parameters"), "rules")) THEN Kept(node)
    ELSE IF In("fallbackOutput", Prop(Prop(node, "parameters"), "rules"))
    THEN Changed(SetProp(node, "parameters", moveFallbackOutput(Prop(node, "parameters"))),
                 1,
                 "Fixed node \"" \o Stringify(Prop(node, "name"))
                     \o "\": Moved 'fallbackOutput' from rules to options")
    ELSE Kept(node)

fixSwitchV3FallbackOutputLocation(workflow) ==
    Looped(workflow, [i \in DOMAIN NodesOf(workflow) |->
                         fixFallbackNode(NodesOf(workflow)[i])])

\* mergeFixResults
mergeFixResults(results) ==
    FixResult(SumFixed(results), Flatten([i \in DOMAIN results |-> results[i].warnings]))

\* One more fix of the list applied to what the fixes before it left
Then(done, applied) ==
    [workflow |-> applied.workflow, results |-> Append(done.results, applied.result)]

\* applyExperimentalFixes(workflow) with the default list of fixes
applyExperimentalFixes(workflow) ==
    LET one == Then([workflow |-> workflow, results |-> << >>],
                    fixEmptyOptionsOnConditionalNodes(workflow))
        two == Then(one, fixSwitchV3RuleConditionsOptions(one.workflow))
        three == Then(two, fixSwitchV3FallbackOutputLocation(two.workflow))
    IN [workflow |-> three.workflow, result |-> mergeFixResults(three.results)]
\* The fixes a caller can run: the three of the default list by their id,
\* and the default list as a whole
FixIds ==
    {"empty-options-if-switch", "switch-v3-rule-conditions-options",
     "switch-v3-fallback-output-location", "default"}

RunFix(id, workflow) ==
    CASE id = "empty-options-if-switch" -> fixEmptyOptionsOnConditionalNodes(workflow)
      [] id = "switch-v3-rule-conditions-options" ->
             fixSwitchV3RuleConditionsOptions(workflow)
      [] id = "switch-v3-fallback-output-location" ->
             fixSwitchV3FallbackOutputLocation(workflow)
      [] OTHER -> applyExperimentalFixes(workflow)

FullOptions ==
    JObj(<< KV("caseSensitive", JBool(FALSE)), KV("leftValue", JStr("x")),
            KV("typeValidation", JStr("loose")) >>)

\* What a rule's conditions.options can hold
RuleOptionsValues ==
    {Undefined, JNull, JStr("o"), JObj(<< >>), JArr(<< >>),
     JObj(<< KV("caseSensitive", JBool(FALSE)) >>),
     FullOptions, SetProp(FullOptions, "version", JNum(1))}

RuleValuesEntries ==
    {JNull, JStr("rule"), JObj(<< KV("outputKey", JStr("a")) >>),
     JObj(<< KV("conditions", JNull) >>), JObj(<< KV("conditions", JStr("c")) >>)}
    \cup {JObj(<< KV("conditions",
                     Stringified(<< KV("options", opts),
                                    KV("combinator", JStr("and")) >>)) >>) :
             opts \in RuleOptionsValues}

\* parameters.rules: no object, an object without a list of values, one
\* rule, two rules; with and without fallbackOutput
FixRulesValues ==
    {Undefined, JNull, JStr("rules"), JArr(<< >>)}
    \cup {Stringified(<< KV("values", values), KV("fallbackOutput", fallbackOutput) >>) :
             values \in {Undefined, JStr("v")}
                        \cup {JArr(<< rule >>) : rule \in RuleValuesEntries}
                        \cup {JArr(<< JObj(<< KV("conditions", JObj(<< >>)) >>),
                                      JObj(<< KV("conditions",
                                                 JObj(<< KV("options", FullOptions) >>)) >>),
                                      JObj(<< KV("conditions", JObj(<< >>)) >>) >>)},
             fallbackOutput \in {Undefined, JStr("extra")}}

\* parameters.options at the root
RootOptionsValues ==
    {Undefined, JNull, JStr("o"), JObj(<< >>), JArr(<< >>),
     JObj(<< KV("fallbackOutput", JStr("none")), KV("looseTypeValidation", JBool(TRUE)) >>)}

FixNode(name, type, typeVersion, parameters) ==
    Stringified(<< KV("name", JStr(name)), KV("type", type),
                   KV("typeVersion", typeVersion), KV("parameters", parameters) >>)

FixParameters(rules, options) ==
    Stringified(<< KV("mode", JStr("rules")), KV("rules", rules), KV("options", options) >>)

ConditionalNodes ==
    {FixNode("A", type, JNum(22), parameters) :
        type \in {Undefined, JStr("n8n-nodes-base.if"), JStr("n8n-nodes-base.switch"),
                  JStr("n8n-nodes-base.crm")},
        parameters \in {Undefined, JNull, JStr("p"), JArr(<< >>)}
                       \cup {FixParameters(Undefined, options) :
                                options \in RootOptionsValues}}

SwitchNodes ==
    {FixNode("S", JStr("n8n-nodes-base.switch"), typeVersion,
             FixParameters(rules, options)) :
        typeVersion \in {Undefined, JStr("3"), JNum(20), JNum(30), JNum(32)},
        rules \in FixRulesValues,
        options \in RootOptionsValues}
    \cup {FixNode("I", JStr("n8n-nodes-base.if"), JNum(30),
                  FixParameters(rules, Undefined)) : rules \in FixRulesValues}

\* The nodes of the documents with several nodes
SiblingNodes ==
    {JNull,
     FixNode("A", JStr("n8n-nodes-base.if"), JNum(22),
             FixParameters(Undefined, JObj(<< >>))),
     FixNode("B", JStr("n8n-nodes-base.crm"), JNum(10),
             FixParameters(Undefined, JObj(<< >>))),
     FixNode("S", JStr("n8n-nodes-base.switch"), JNum(32),
             FixParameters(JObj(<< KV("values",
                                      JArr(<< JObj(<< KV("conditions", JObj(<< >>)) >>) >>)),
                                   KV("fallbackOutput", JStr("extra")) >>),
                           JObj(<< >>)))}

FixWorkflows ==
    {JObj(<< KV("name", JStr("w")) >>),
     JObj(<< KV("name", JStr("w")), KV("nodes", JStr("none")) >>)}
    \cup {JObj(<< KV("name", JStr("w")), KV("nodes", JArr(nodes)),
                  KV("connections", JObj(<< >>)) >>) :
             nodes \in {<< node >> : node \in ConditionalNodes \cup SwitchNodes}
                       \cup SeqsUpTo(SiblingNodes, MaxNodes)}

\* A caller holds a parsed workflow and picks a fix
TakeWorkflow(fix, workflow) ==
    /\ held = NoDocument
    /\ held' = [kind |-> fix, doc |-> workflow, sent |-> workflow, calls |-> 0,
                before |-> workflow]
    /\ UNCHANGED << files, stats, reqKind, reqBody, native, outcome, status, pc, cacheSets,
                    first, again >>

\* fix.apply(workflow), or applyExperimentalFixes(workflow), on the held
\* workflow: `before` is the workflow as it was when the call was made
ApplyFix ==
    /\ held.kind \in FixIds
    /\ held.calls < 2
    /\ again' = RunFix(held.kind, held.doc).result
    /\ first' = IF held.calls = 0 THEN again' ELSE first
    /\ held' = [held EXCEPT !.doc = RunFix(held.kind, held.doc).workflow,
                            !.before = held.doc,
                            !.calls = @ + 1]
    /\ UNCHANGED << files, stats, reqKind, reqBody, native, outcome, status, pc, cacheSets >>

NextFix ==
    \/ \E fix \in FixIds, workflow \in FixWorkflows : TakeWorkflow(fix, workflow)
    \/ ApplyFix
    \/ Release

SpecFix == Init /\ [][NextFix]_vars
-----------------------------------------------------------------------------
(* The fixes: what they change and what they leave alone                    *)

FixedOnce(id) == held.kind = id /\ held.calls = 1

FixedTwice(id) == held.kind = id /\ held.calls = 2

\* The nodes the caller passed and the nodes the fix left, index by index
SentNodes == NodesOf(held.sent)
LeftNodes == NodesOf(held.doc)

ParametersOf(node) == Prop(node, "parameters")

\* An empty object `{}` at parameters.options of an If or Switch node
HasEmptyOptionsObject(node) ==
    /\ node.t = "obj"
    /\ IsConditional(node)
    /\ TypeofObject(ParametersOf(node)) /\ ParametersOf(node).t # "null"
    /\ Prop(ParametersOf(node), "options") = JObj(<< >>)

\* C24: fixEmptyOptionsOnConditionalNodes deletes parameters.options from a
\* node iff its type is n8n-nodes-base.if or n8n-nodes-base.switch and
\* parameters.options exists and is an empty object; every other node and
\* every other key of the workflow is unchanged, and `fixed` is the number
\* of nodes changed and the number of warnings.
C24_EmptyOptionsOnly ==
    FixedOnce("empty-options-if-switch") =>
        /\ Len(LeftNodes) = Len(SentNodes)
        /\ \A i \in DOMAIN SentNodes :
               LeftNodes[i] =
                   IF HasEmptyOptionsObject(SentNodes[i])
                   THEN SetProp(SentNodes[i], "parameters",
                                DeleteProp(ParametersOf(SentNodes[i]), "options"))
                   ELSE SentNodes[i]
        /\ DeleteProp(held.doc, "nodes") = DeleteProp(held.sent, "nodes")
        /\ first.fixed = Cardinality({i \in DOMAIN SentNodes : LeftNodes[i] # SentNodes[i]})
        /\ first.fixed = Len(first.warnings)

\* C25: the fixes are idempotent: applying fixEmptyOptionsOnConditionalNodes,
\* or the whole default pipeline applyExperimentalFixes, a second time right
\* after a first application returns fixed = 0 with no warnings and leaves
\* the workflow unchanged.
C25_FixesIdempotent ==
    (FixedTwice("empty-options-if-switch") \/ FixedTwice("default")) =>
        /\ again.fixed = 0
        /\ again.warnings = << >>
        /\ held.doc = held.before

C25_Witness ==
    /\ FixedTwice("default")
    /\ first.fixed >= 3
    /\ held.before # held.sent
    /\ again.fixed = 0

\* A Switch node of version 3 or later, as the claims name it
SwitchV3(node) ==
    /\ node.t = "obj"
    /\ Prop(node, "type") = JStr("n8n-nodes-base.switch")
    /\ Prop(node, "typeVersion").t = "num"
    /\ Prop(node, "typeVersion").n >= 30

RulesOf(node) == Prop(ParametersOf(node), "rules")

\* The rules of parameters.rules.values
RuleList(node) ==
    IF IsArray(Prop(RulesOf(node), "values")) THEN Prop(RulesOf(node), "values").a
    ELSE << >>

ConditionsOf(rule) == Prop(rule, "conditions")

IsObject(x) == TypeofObject(x) /\ x.t # "null"

RequiredOptionKeys(node) ==
    {"caseSensitive", "leftValue", "typeValidation"}
    \cup (IF Prop(node, "typeVersion").n >= 32 THEN {"version"} ELSE {})

C27_FallbackOutputMoved ==
    FixedOnce("switch-v3-fallback-output-location") =>
        /\ Len(LeftNodes) = Len(SentNodes)
        /\ \A i \in DOMAIN SentNodes :
               IF SwitchV3(SentNodes[i])
               THEN LET was == ParametersOf(SentNodes[i])
                        now == ParametersOf(LeftNodes[i])
                    IN /\ ~ In("fallbackOutput", Prop(now, "rules"))
                       /\ In("fallbackOutput", Prop(was, "rules")) =>
                             /\ Prop(Prop(now, "options"), "fallbackOutput")
                                    = Prop(Prop(was, "rules"), "fallbackOutput")
                             /\ \A p \in DOMAIN OwnProps(Prop(was, "options")) :
                                   OwnProps(Prop(was, "options"))[p].k # "fallbackOutput"
                                   => Prop(Prop(now, "options"),
                                           OwnProps(Prop(was, "options"))[p].k)
                                          = OwnProps(Prop(was, "options"))[p].v
                             /\ \A p \in DOMAIN OwnProps(Prop(was, "rules")) :
                                   OwnProps(Prop(was, "rules"))[p].k # "fallbackOutput"
                                   => Prop(Prop(now, "rules"),
                                           OwnProps(Prop(was, "rules"))[p].k)
                                          = OwnProps(Prop(was, "rules"))[p].v
               ELSE LeftNodes[i] = SentNodes[i]

\* A fallbackOutput was moved next to options that already held keys
C27_Witness ==
    /\ FixedOnce("switch-v3-fallback-output-location")
    /\ first.fixed = 1
    /\ \E i \in DOMAIN SentNodes :
          /\ SwitchV3(SentNodes[i])
          /\ Prop(RulesOf(SentNodes[i]), "fallbackOutput") = JStr("extra")
          /\ Prop(Prop(ParametersOf(SentNodes[i]), "options"), "fallbackOutput")
                 = JStr("none")
          /\ Prop(Prop(ParametersOf(LeftNodes[i]), "options"), "fallbackOutput")
                 = JStr("extra")
          /\ Prop(Prop(ParametersOf(LeftNodes[i]), "options"), "looseTypeValidation")
                 = JBool(TRUE)
-----------------------------------------------------------------------------
(* Defaults of a node whose default evaluation throws                       *)

EmittedDefaults ==
    IF outcome.by = "extractSingleNodeValidation" THEN outcome.computedDefaults
    ELSE Get(outcome.schema, "defaults")

\* C22: when the default evaluation of a node throws, the node's schema is
\* still emitted, with defaults equal to the empty object {} and no other
\* fallback value.
C22_DefaultsDegradeToEmpty ==
    (ExtractDone /\ outcome.by # "getVersions" /\ DefaultsThrow(reqBody)) =>
        /\ ~ outcome.skipped
        /\ EmittedDefaults = JObj(<< >>)
-----------------------------------------------------------------------------
(* extract.ts: writeIfChanged                                               *)

\* A bound on the calls of writeIfChanged one process makes
MaxWrites == 3

\* fs.existsSync(filePath) on the output directory
existsSync(dir, filePath) == \E i \in DOMAIN dir : dir[i].path = filePath

\* fs.readFileSync(filePath, 'utf8') of a file that exists
readFileSync(dir, filePath) ==
    dir[CHOOSE i \in DOMAIN dir : dir[i].path = filePath].content

\* fs.writeFileSync(filePath, content): replace the file or create it
writeFileSync(dir, filePath, content) ==
    IF existsSync(dir, filePath)
    THEN [i \in DOMAIN dir |->
             IF dir[i].path = filePath THEN [path |-> filePath, content |-> content]
             ELSE dir[i]]
    ELSE Append(dir, [path |-> filePath, content |-> content])

\* Two different texts with the same MD5 digest: the digest has 128 bits and
\* such pairs can be built
CollidingText == JStr("x")
CollidingTwin == JStr("x'")

\* md5(content): the digest, named by one text of its class
md5(content) == IF content = CollidingTwin THEN CollidingText ELSE content

\* const FORCE = process.env.FORCE_UPDATE === '1'
FORCE(env) == env = JStr("1")

\* writeIfChanged(filePath, content, stats) in a process started with
\* FORCE_UPDATE = env; the directory and the stats after it, and what it returns
writeIfChanged(dir, counted, filePath, content, env) ==
    IF ~ FORCE(env) /\ existsSync(dir, filePath)
          /\ md5(readFileSync(dir, filePath)) = md5(content)
    THEN [files |-> dir,
          stats |-> [counted EXCEPT !.unchanged = @ + 1],
          returned |-> FALSE]
    ELSE [files |-> writeFileSync(dir, filePath, content),
          stats |-> [counted EXCEPT
                        !.updated = IF ~ FORCE(env) /\ existsSync(dir, filePath)
                                    THEN @ + 1 ELSE @,
                        !.created = IF ~ FORCE(env) /\ existsSync(dir, filePath)
                                    THEN @ ELSE @ + 1,
                        !.changedFiles = Append(@, filePath)],
          returned |-> TRUE]

\* The values of the environment variable FORCE_UPDATE: unset, or a string
ForceUpdateValues == {Undefined, JStr("1"), JStr("true")}

FilePaths == {"nodes/if.json", "_meta.json"}

FileContents == {CollidingText, CollidingTwin, JStr("y")}

Process(env) == [kind |-> "process", doc |-> JNull, sent |-> JNull, calls |-> 0, env |-> env]

\* A process is started with FORCE_UPDATE = env and fresh stats; the output
\* directory is what earlier processes left
Launch(env) ==
    /\ held' = Process(env)
    /\ stats' = newStats
    /\ reqKind' = "none"
    /\ reqBody' = JNull
    /\ outcome' = NoOutcome
    /\ UNCHANGED << files, native, status, pc, cacheSets, first, again >>

\* One call writeIfChanged(filePath, content, stats)
WriteFile(filePath, content) ==
    /\ held.kind = "process"
    /\ stats.created + stats.updated + stats.unchanged < MaxWrites
    /\ reqKind' = "write"
    /\ reqBody' = [path |-> filePath, content |-> content]
    /\ outcome' = [by |-> "writeIfChanged",
                   returned |-> writeIfChanged(files, stats, filePath, content, held.env).returned,
                   files |-> files, stats |-> stats]
    /\ files' = writeIfChanged(files, stats, filePath, content, held.env).files
    /\ stats' = writeIfChanged(files, stats, filePath, content, held.env).stats
    /\ UNCHANGED << native, status, pc, cacheSets, held, first, again >>

NextWrite ==
    \/ \E env \in ForceUpdateValues : Launch(env)
    \/ \E filePath \in FilePaths, content \in FileContents : WriteFile(filePath, content)

SpecWrite == Init /\ [][NextWrite]_vars

\* The state in which a call of writeIfChanged has just returned
WriteDone == reqKind = "write"

Incremented(counter) ==
    /\ stats[counter] = outcome.stats[counter] + 1
    /\ \A other \in {"created", "updated", "unchanged"} \ {counter} :
           stats[other] = outcome.stats[other]

C23_Counted ==
    WriteDone =>
        /\ outcome.returned = FALSE => files = outcome.files
        /\ existsSync(files, reqBody.path)
        /\ md5(readFileSync(files, reqBody.path)) = md5(reqBody.content)
        /\ \E counter \in {"created", "updated", "unchanged"} : Incremented(counter)
        /\ stats.changedFiles =
               IF outcome.returned THEN Append(outcome.stats.changedFiles, reqBody.path)
               ELSE outcome.stats.changedFiles
-----------------------------------------------------------------------------
(* extract.ts: one run of the extractor over the installed packages         *)

\* One class exported by a *.node.js file: whether `new Cls()` throws, and
\* the instance it gives
NodeClass(node) == [throws |-> FALSE, inst |-> node]

BrokenClass == [throws |-> TRUE, inst |-> JNull]

\* loadNodes(): the instances keyed by description.name, in insertion order;
\* a class that throws or has no description name is left out
RECURSIVE loadNodes(_)
loadNodes(classes) ==
    IF classes = << >> THEN << >>
    ELSE IF classes[Len(classes)].throws
            \/ ~ Truthy(Get(classes[Len(classes)].inst.description, "name"))
    THEN loadNodes(SubSeq(classes, 1, Len(classes) - 1))
    ELSE MapSet(loadNodes(SubSeq(classes, 1, Len(classes) - 1)),
                Get(classes[Len(classes)].inst.description, "name").s,
                classes[Len(classes)].inst)

\* Array.prototype.sort() on node names and on category names, which compares
\* UTF-16 code units: the names of the model in that order
NameOrder ==
    << "crm", "editFields", "if", "legacy", "other", "probe", "switch", "transform" >>

sort(names) ==
    LET listed == {names[i] : i \in DOMAIN names}
    IN SelectSeq(NameOrder, LAMBDA name : name \in listed)

Names(names) == JArr([i \in DOMAIN names |-> JStr(names[i])])

\* The state of a run: the output directory, this.stats, the calls of
\* writeIfChanged made so far, the lists extractNodes keeps, and whether an
\* exception left the run
RunStart(dir) ==
    [files |-> dir, stats |-> newStats, calls |-> << >>,
     allNodes |-> << >>, categories |-> << >>, withFilters |-> << >>,
     withFixedColl |-> << >>, threw |-> FALSE]

Recorded(acc, filePath, content, written) ==
    [acc EXCEPT !.files = written.files,
                !.stats = written.stats,
                !.calls = Append(@, [path |-> filePath, content |-> content,
                                     returned |-> written.returned])]

\* writeIfChanged(`${this.out}/...`, JSON.stringify(...), this.stats)
Written(acc, filePath, content, env) ==
    Recorded(acc, filePath, content,
             writeIfChanged(acc.files, acc.stats, filePath, content, env))

\* desc.group || ['other']
groupOf(desc) ==
    IF Truthy(Get(desc, "group"))
    THEN [i \in DOMAIN Get(desc, "group").a |-> Get(desc, "group").a[i].s]
    ELSE << "other" >>

\* (categories[cat] ||= []).push(name), for every cat of the group
RECURSIVE pushCategories(_, _, _)
pushCategories(categories, group, name) ==
    IF group = << >> THEN categories
    ELSE pushCategories(
             MapSet(categories, group[1],
                    IF \E i \in DOMAIN categories : categories[i].k = group[1]
                    THEN Append(categories[CHOOSE i \in DOMAIN categories :
                                               categories[i].k = group[1]].v, name)
                    ELSE << name >>),
             Tail(group), name)

hasFilter(props) == \E i \in DOMAIN props : Get(props[i], "type") = JStr("filter")

fixedColls(props) ==
    SelectSeq(props, LAMBDA p : Get(p, "type") = JStr("fixedCollection"))

\* allNodes.push(name) and the three other lists
Tracked(acc, name, desc) ==
    [acc EXCEPT !.allNodes = Append(@, name),
                !.categories = pushCategories(@, groupOf(desc), name),
                !.withFilters = IF hasFilter(DescProperties(desc))
                                THEN Append(@, name) ELSE @,
                !.withFixedColl = IF fixedColls(DescProperties(desc)) # << >>
                                  THEN Append(@, name) ELSE @]

\* The body of the loop of extractNodes without its try/catch: the first
\* exception leaves the loop and the run
abortOnThrow(acc, name, node, env) ==
    IF acc.threw THEN acc
    ELSE IF extractNode(node).skipped THEN [acc EXCEPT !.threw = TRUE]
    ELSE Tracked(Written(Written(acc, "nodes/" \o name \o ".json", NodeSchema(node), env),
                         "nodes/validation/" \o name \o ".json",
                         NodeValidation(node), env),
                 name, Desc(node))

\* The body of the loop of extractNodes for one entry of this.nodes: a node
\* that throws, or has no description, is skipped by `catch {}` or `continue`
tryNode(acc, name, node, env) ==
    IF extractNode(node).skipped THEN acc
    ELSE Tracked(Written(Written(acc, "nodes/" \o name \o ".json", NodeSchema(node), env),
                         "nodes/validation/" \o name \o ".json",
                         NodeValidation(node), env),
                 name, Desc(node))

\* for (const [name, node] of this.nodes) { ... }
RECURSIVE loopNodes(_, _, _)
loopNodes(acc, nodes, env) ==
    IF nodes = << >> THEN acc
    ELSE loopNodes(tryNode(acc, nodes[1].k, nodes[1].v, env), Tail(nodes), env)

\* for (const [cat, nodes] of Object.entries(categories)): the category
\* names of the model are lower case already
RECURSIVE categoryIndexes(_, _, _)
categoryIndexes(acc, categories, env) ==
    IF categories = << >> THEN acc
    ELSE categoryIndexes(
             Written(acc, "nodes/by-category/" \o categories[1].k \o ".json",
                     JObj(<< KV("category", JStr(categories[1].k)),
                             KV("count", JNum(Len(categories[1].v))),
                             KV("nodes", Names(sort(categories[1].v))) >>),
                     env),
             Tail(categories), env)

\* categories after nodes.sort() has sorted every list in place
byCategory(categories) ==
    JObj([i \in DOMAIN categories |->
             KV(categories[i].k, Names(sort(categories[i].v)))])

\* The master indexes nodes/_index.json and nodes/validation/_index.json
masterIndexes(acc, env) ==
    Written(
        Written(acc, "nodes/_index.json",
                JObj(<< KV("totalNodes", JNum(Len(acc.allNodes))),
                        KV("categories",
                           Names(sort([i \in DOMAIN acc.categories |->
                                          acc.categories[i].k]))),
                        KV("nodes", Names(sort(acc.allNodes))),
                        KV("byCategory", byCategory(acc.categories)) >>),
                env),
        "nodes/validation/_index.json",
        JObj(<< KV("total", JNum(Len(acc.allNodes))),
                KV("nodes", Names(sort(acc.allNodes))),
                KV("withFilters", Names(sort(acc.withFilters))),
                KV("withFixedCollections", Names(sort(acc.withFixedColl))) >>),
        env)

\* extractNodes()
extractNodes(acc, nodes, env) ==
    IF loopNodes(acc, nodes, env).threw THEN loopNodes(acc, nodes, env)
    ELSE masterIndexes(
             categoryIndexes(loopNodes(acc, nodes, env),
                             loopNodes(acc, nodes, env).categories, env),
             env)

\* extractWorkflow(), extractCommon() and extractCredentials(): texts that
\* depend on the installed packages only, which are the same in every run;
\* the credential classes are not modelled
extractStatic(acc, env) ==
    IF acc.threw THEN acc
    ELSE Written(
             Written(
                 Written(acc, "workflow/workflow.json", JStr("workflow schema"), env),
                 "common/types.json", JStr("common types"), env),
             "credentials/_index.json",
             JObj(<< KV("total", JNum(0)), KV("credentials", JArr(<< >>)) >>), env)

\* extractMeta(): extractedAt is new Date().toISOString() at the time of the run
extractMeta(acc, nodes, env, now) ==
    IF acc.threw THEN acc
    ELSE Written(acc, "_meta.json",
                 JObj(<< KV("extractedAt", JNum(now)),
                         KV("n8nVersion", JStr("unknown")),
                         KV("nodeCount", JNum(Len(nodes))) >>),
                 env)

\* new Extractor(outDir).run() over the installed classes, started with
\* FORCE_UPDATE = env when the clock reads `now`
run(dir, classes, env, now) ==
    extractMeta(
        extractStatic(extractNodes(RunStart(dir), loadNodes(classes), env), env),
        loadNodes(classes), env, now)

\* The node of the fixture with a group of its own
Grouped(node, group) ==
    [node EXCEPT !.description = JObj(Append(@.o, KV("group", JArr(<< JStr(group) >>))))]

\* A versioned node whose default version has no description
Undescribed ==
    [name |-> "switch", versioned |-> TRUE,
     description |-> JObj(<< KV("name", JStr("switch")) >>),
     nodeVersions |-> << [version |-> 10, description |-> Undefined] >>,
     defaults |-> JObj(<< >>)]

\* A versioned node whose default version is not in its map: the lookup throws
Unresolvable ==
    [name |-> "crm", versioned |-> TRUE,
     description |-> JObj(<< KV("name", JStr("crm")), KV("defaultVersion", JNum(20)) >>),
     nodeVersions |-> << [version |-> 10,
                          description |-> Description("crm", JNum(10), << >>)] >>,
     defaults |-> JObj(<< >>)]

\* An instance whose description has no name
Nameless ==
    [name |-> "", versioned |-> FALSE, description |-> JObj(<< >>),
     nodeVersions |-> << >>, defaults |-> JObj(<< >>)]

\* The classes a package may export
Classes ==
    {NodeClass(InstalledNodes[1]), NodeClass(Grouped(InstalledNodes[5], "transform")),
     NodeClass(ThrowingNode(Undefined)), NodeClass(Undescribed),
     NodeClass(Unresolvable), NodeClass(Nameless), BrokenClass}

Packages == SeqsUpTo(Classes, MaxNodes) \ {<< >>}

\* The packages are installed and the output directory is empty
Install(classes) ==
    /\ held = NoDocument /\ pc = "idle"
    /\ held' = [kind |-> "packages", doc |-> classes, sent |-> classes, calls |-> 0]
    /\ files' = << >>
    /\ UNCHANGED << stats, reqKind, reqBody, native, outcome, status, pc, cacheSets,
                    first, again >>

\* The extractor process is started with FORCE_UPDATE = env: the constructor
\* loads the nodes and takes fresh stats
StartRun(env) ==
    /\ held.kind = "packages" /\ held.calls < 2 /\ pc = "idle"
    /\ reqKind' = "run"
    /\ reqBody' = [env |-> env, nodes |-> loadNodes(held.doc)]
    /\ stats' = newStats
    /\ pc' = "received"
    /\ UNCHANGED << files, native, outcome, status, cacheSets, held, first, again >>

\* run(): the clock of a later run reads a later instant
Run ==
    /\ pc = "received" /\ reqKind = "run"
    /\ outcome' = [by |-> "run",
                   threw |-> run(files, held.doc, reqBody.env, held.calls + 1).threw,
                   calls |-> run(files, held.doc, reqBody.env, held.calls + 1).calls]
    /\ files' = run(files, held.doc, reqBody.env, held.calls + 1).files
    /\ stats' = run(files, held.doc, reqBody.env, held.calls + 1).stats
    /\ held' = [held EXCEPT !.calls = @ + 1]
    /\ pc' = "responded"
    /\ UNCHANGED << reqKind, reqBody, native, status, cacheSets, first, again >>

NextRun ==
    \/ \E classes \in Packages : Install(classes)
    \/ \E env \in ForceUpdateValues : StartRun(env)
    \/ Run
    \/ Respond
    \/ Release

SpecRun == Init /\ [][NextRun]_vars

\* The state in which a run of the extractor has just ended
RunDone == pc = "responded" /\ reqKind = "run"

\* writeIfChanged was called for the schema of the node
Emitted(name) ==
    \E i \in DOMAIN outcome.calls : outcome.calls[i].path = "nodes/" \o name \o ".json"

IndexedNodes ==
    {Get(readFileSync(files, "nodes/_index.json"), "nodes").a[i].s :
        i \in DOMAIN Get(readFileSync(files, "nodes/_index.json"), "nodes").a}

C30_SecondRunRewritesNothing ==
    (RunDone /\ held.calls = 2 /\ reqBody.env = Undefined) =>
        /\ stats.created = 0
        /\ stats.updated = 0
        /\ stats.changedFiles = << >>

\* The same, for every file but _meta.json, which carries the time of the run
C30_OnlyMetaRewritten ==
    (RunDone /\ held.calls = 2 /\ reqBody.env = Undefined) =>
        /\ stats.created = 0
        /\ stats.updated = 1
        /\ stats.changedFiles = << "_meta.json" >>

====
